---- MODULE Spec2Model ----
(***************************************************************************)
(* A model of the oxwm window-management policy engine: the client         *)
(* registry with its two intrusive per-monitor lists, the monitor and tag  *)
(* model, the focus controller, the keychord machine, the tiling layout    *)
(* arithmetic, the size-hint engine and the control loop.                  *)
(*                                                                         *)
(* The operations of WindowManager are written as operators on a record    *)
(* that holds the fields of WindowManager (Snapshot); an action of the     *)
(* model is one event handled by handle_event, computed by composing these *)
(* operators exactly as the handler calls them.                            *)
(***************************************************************************)
EXTENDS Integers, Sequences, FiniteSets, TLC

(***************************************************************************)
(* Bounds of the model.                                                    *)
(***************************************************************************)
MaxWindows == 3
NumMonitors == 2
NumTags == 2
MaxEvents == 4

None == 0
Windows == 1..MaxWindows
MonitorIds == 0..(NumMonitors - 1)
TagIndices == 0..(NumTags - 1)
Fuel == MaxWindows + 1

(***************************************************************************)
(* TagMask arithmetic (u32 bit operations).                                *)
(***************************************************************************)
RECURSIVE BitAnd(_, _)
BitAnd(a, b) ==
    IF a = 0 \/ b = 0 THEN 0
    ELSE (a % 2) * (b % 2) + 2 * BitAnd(a \div 2, b \div 2)

RECURSIVE BitXor(_, _)
BitXor(a, b) ==
    IF a = 0 THEN b
    ELSE IF b = 0 THEN a
    ELSE ((a + b) % 2) + 2 * BitXor(a \div 2, b \div 2)

tag_mask(tag) == 2 ^ tag

RECURSIVE TrailingZeros(_, _)
TrailingZeros(mask, n) ==
    IF n = 32 THEN 32
    ELSE IF mask % 2 = 1 THEN n
    ELSE TrailingZeros(mask \div 2, n + 1)

unmask_tag(mask) == TrailingZeros(mask, 0)

AllTagMasks == 0..(2 ^ NumTags - 1)

(***************************************************************************)
(* State of WindowManager.                                                 *)
(***************************************************************************)
VARIABLES
    clients,            \* HashMap<Window, Client>
    monitors,           \* Vec<Monitor>
    selected_monitor,   \* usize
    windows,            \* Vec<Window>
    floating_windows,   \* HashSet<Window>
    fullscreen_windows, \* HashSet<Window>
    layout,             \* name of the active layout
    config,             \* the policy parameters in force
    run_result,         \* "pending" while run() loops, then what it returned
    events_handled,     \* number of events run() has dispatched
    keybindings,        \* config.keybindings
    keychord_state,     \* KeychordState
    current_key,        \* usize
    key_result,         \* what handle_key_press returned for the last KeyPress
    arrange_call,       \* the arguments of a direct call of TilingLayout::arrange
    layout_args,        \* what apply_layout hands to arrange besides the windows
    arrange_result,     \* Vec<WindowGeometry> returned by the last arrange call
    laid_out,           \* per monitor: the windows apply_layout zipped with it
    geometry,           \* the geometry and size-hint fields of every Client
    wm_normal_hints,    \* WM_NORMAL_HINTS of every window, on the display server
    hint_call,          \* the arguments of a direct call of apply_size_hints
    hint_result,        \* what that call returned
    round_trip,         \* history: the client as it was when it last entered fullscreen
    gaps_enabled,       \* bool
    error_message,      \* Option<String>
    overlay,            \* the ErrorOverlay: is_visible and the text handed to it
    reload,             \* history: the last KeyAction::Restart and what was in force before it
    net_client_info,    \* _NET_CLIENT_INFO of every window, on the display server
    server_windows,     \* what the display server knows of every child of the root
    z_order,            \* the windows restack configured last, topmost first
    last_event,         \* history: the event handled last and the state it met
    grabbed,            \* the passive key grabs on the root, on the display server
    drag                \* the nested event loop of drag_window / resize_window_with_mouse

wmvars == <<clients, monitors, selected_monitor, windows, floating_windows,
            fullscreen_windows, layout, config, run_result, events_handled>>

keyvars == <<keybindings, keychord_state, current_key, key_result>>

tilevars == <<arrange_call, layout_args, arrange_result, laid_out>>

geomvars == <<geometry, wm_normal_hints, hint_call, hint_result, round_trip>>

restartvars == <<gaps_enabled, error_message, overlay, reload, net_client_info,
                 server_windows, grabbed, drag>>

extravars == <<restartvars, z_order, last_event>>

vars == <<wmvars, keyvars, tilevars, geomvars, extravars>>

Snapshot ==
    [clients |-> clients, monitors |-> monitors,
     selected_monitor |-> selected_monitor, windows |-> windows,
     floating_windows |-> floating_windows,
     fullscreen_windows |-> fullscreen_windows, layout |-> layout,
     config |-> config]

\* The same with the geometry of the clients, the hint properties and the
\* parameters of the layout.
GeometrySnapshot ==
    [clients |-> clients, monitors |-> monitors,
     selected_monitor |-> selected_monitor, windows |-> windows,
     floating_windows |-> floating_windows,
     fullscreen_windows |-> fullscreen_windows, layout |-> layout,
     config |-> config, geometry |-> geometry,
     wm_normal_hints |-> wm_normal_hints, layout_args |-> layout_args]

Becomes(s) ==
    /\ clients' = s.clients
    /\ monitors' = s.monitors
    /\ selected_monitor' = s.selected_monitor
    /\ windows' = s.windows
    /\ floating_windows' = s.floating_windows
    /\ fullscreen_windows' = s.fullscreen_windows
    /\ layout' = s.layout
    /\ config' = s.config

NewClient(monitor_index, tags) ==
    [tags |-> tags, monitor_index |-> monitor_index,
     is_floating |-> FALSE, is_fullscreen |-> FALSE, is_fixed |-> FALSE,
     is_urgent |-> FALSE, old_state |-> FALSE,
     next |-> None, stack_next |-> None]

NewMonitor ==
    [tagset |-> (0 :> 1 @@ 1 :> 1), selected_tags_index |-> 0,
     clients_head |-> None, selected_client |-> None, stack_head |-> None]

ActiveTags(m) == m.tagset[m.selected_tags_index]

Contains(seq, x) == \E i \in 1..Len(seq) : seq[i] = x

Retain(seq, x) == SelectSeq(seq, LAMBDA y : y # x)

RemoveKey(f, k) == [x \in (DOMAIN f) \ {k} |-> f[x]]

(***************************************************************************)
(* Visibility.                                                             *)
(***************************************************************************)
is_visible(s, window) ==
    /\ window \in DOMAIN s.clients
    /\ BitAnd(s.clients[window].tags,
              ActiveTags(s.monitors[s.clients[window].monitor_index])) # 0

is_window_visible(s, window) == is_visible(s, window)

\* The tiling list of a monitor from `from` on, as the loops of the code
\* walk it: the walk ends at None or at a key that is not in the registry.
RECURSIVE TilingWalk(_, _, _)
TilingWalk(s, from, fuel) ==
    IF from = None \/ fuel = 0 \/ from \notin DOMAIN s.clients THEN <<>>
    ELSE <<from>> \o TilingWalk(s, s.clients[from].next, fuel - 1)

RECURSIVE StackWalk(_, _, _)
StackWalk(s, from, fuel) ==
    IF from = None \/ fuel = 0 \/ from \notin DOMAIN s.clients THEN <<>>
    ELSE <<from>> \o StackWalk(s, s.clients[from].stack_next, fuel - 1)

TilingList(s, mi) == TilingWalk(s, s.monitors[mi].clients_head, Fuel)
StackList(s, mi) == StackWalk(s, s.monitors[mi].stack_head, Fuel)

visible_windows_on_monitor(s, mi) ==
    SelectSeq(TilingList(s, mi),
              LAMBDA w : BitAnd(s.clients[w].tags, ActiveTags(s.monitors[mi])) # 0)

FirstOr(seq, default) == IF Len(seq) = 0 THEN default ELSE seq[1]

\* First visible client met from `from` on along stack_next.
FirstVisibleInStack(s, from) ==
    FirstOr(SelectSeq(StackWalk(s, from, Fuel), LAMBDA w : is_visible(s, w)), None)

next_tiled(s, start, mi) ==
    FirstOr(SelectSeq(TilingWalk(s, start, Fuel),
                      LAMBDA w : /\ BitAnd(s.clients[w].tags, ActiveTags(s.monitors[mi])) # 0
                                 /\ ~s.clients[w].is_floating),
            None)

next_tagged(s, start, tags) ==
    FirstOr(SelectSeq(TilingWalk(s, start, Fuel),
                      LAMBDA w : /\ ~s.clients[w].is_floating
                                 /\ BitAnd(s.clients[w].tags, tags) # 0),
            None)

(***************************************************************************)
(* The two intrusive lists: attach, attach_aside, detach, attach_stack,    *)
(* detach_stack, insert_before.                                            *)
(***************************************************************************)
attach(s, window, monitor_index) ==
    IF window \in DOMAIN s.clients
    THEN [s EXCEPT !.clients[window].next = s.monitors[monitor_index].clients_head,
                   !.monitors[monitor_index].clients_head = window]
    ELSE s

\* attach_aside that forgets to hand the rest of the list to the new client.
attach_aside_drops_tail(s, window, monitor_index) ==
    LET new_window_tags == IF window \in DOMAIN s.clients THEN s.clients[window].tags ELSE 0
        first_tagged == next_tagged(s, s.monitors[monitor_index].clients_head, new_window_tags)
    IN  IF first_tagged = None THEN attach(s, window, monitor_index)
        ELSE LET s1 == IF window \in DOMAIN s.clients
                       THEN [s EXCEPT !.clients[window].next = None]
                       ELSE s
             IN  [s1 EXCEPT !.clients[first_tagged].next = window]

attach_aside(s, window, monitor_index) ==
    LET new_window_tags == IF window \in DOMAIN s.clients THEN s.clients[window].tags ELSE 0
        first_tagged == next_tagged(s, s.monitors[monitor_index].clients_head, new_window_tags)
    IN  IF first_tagged = None THEN attach(s, window, monitor_index)
        ELSE LET old_next == s.clients[first_tagged].next
                 s1 == IF window \in DOMAIN s.clients
                       THEN [s EXCEPT !.clients[window].next = old_next]
                       ELSE s
             IN  [s1 EXCEPT !.clients[first_tagged].next = window]

\* The first client met from the head on whose next link is `window`.
PrevInTiling(s, mi, window) ==
    FirstOr(SelectSeq(TilingList(s, mi), LAMBDA w : s.clients[w].next = window), None)

PrevInStack(s, mi, window) ==
    FirstOr(SelectSeq(StackList(s, mi), LAMBDA w : s.clients[w].stack_next = window), None)

\* detach that takes a client it cannot find for the head of the list.
detach_unchecked(s, window) ==
    IF window \notin DOMAIN s.clients THEN s
    ELSE LET mi == s.clients[window].monitor_index
             prev == PrevInTiling(s, mi, window)
         IN  IF prev = None
             THEN [s EXCEPT !.monitors[mi].clients_head = s.clients[window].next]
             ELSE [s EXCEPT !.clients[prev].next = s.clients[window].next]

detach(s, window) ==
    IF window \notin DOMAIN s.clients THEN s
    ELSE LET mi == s.clients[window].monitor_index
         IN  IF s.monitors[mi].clients_head = window
             THEN [s EXCEPT !.monitors[mi].clients_head = s.clients[window].next]
             ELSE LET prev == PrevInTiling(s, mi, window)
                  IN  IF prev = None THEN s
                      ELSE [s EXCEPT !.clients[prev].next = s.clients[window].next]

attach_stack(s, window, monitor_index) ==
    IF window \in DOMAIN s.clients
    THEN [s EXCEPT !.clients[window].stack_next = s.monitors[monitor_index].stack_head,
                   !.monitors[monitor_index].stack_head = window]
    ELSE s

detach_stack(s, window) ==
    IF window \notin DOMAIN s.clients THEN s
    ELSE LET mi == s.clients[window].monitor_index
         IN  IF s.monitors[mi].stack_head = window
             THEN LET s1 == [s EXCEPT !.monitors[mi].stack_head = s.clients[window].stack_next]
                      should_update_selected == s.monitors[mi].selected_client = window
                      new_selected == FirstVisibleInStack(s1, s1.monitors[mi].stack_head)
                  IN  IF should_update_selected
                      THEN [s1 EXCEPT !.monitors[mi].selected_client = new_selected]
                      ELSE s1
             ELSE LET prev == PrevInStack(s, mi, window)
                  IN  IF prev = None THEN s
                      ELSE [s EXCEPT !.clients[prev].stack_next = s.clients[window].stack_next]

insert_before(s, window, target, monitor_idx) ==
    IF s.monitors[monitor_idx].clients_head = target
    THEN LET s1 == IF window \in DOMAIN s.clients
                   THEN [s EXCEPT !.clients[window].next = target]
                   ELSE s
         IN  [s1 EXCEPT !.monitors[monitor_idx].clients_head = window]
    ELSE LET prev == PrevInTiling(s, monitor_idx, target)
         IN  IF prev = None THEN s
             ELSE LET s1 == [s EXCEPT !.clients[prev].next = window]
                  IN  IF window \in DOMAIN s1.clients
                      THEN [s1 EXCEPT !.clients[window].next = target]
                      ELSE s1

(***************************************************************************)
(* The tiling layout (layout/tiling.rs).  A u32 is kept as its two 16-bit  *)
(* halves, so that a negative i32 cast to u32 is the value the cast gives. *)
(***************************************************************************)
U16 == 2 ^ 16

as_u32(x) ==
    IF x >= 0 THEN [hi |-> x \div U16, lo |-> x % U16]
    ELSE [hi |-> U16 - 1 - ((-x - 1) \div U16), lo |-> U16 - 1 - ((-x - 1) % U16)]

Min(a, b) == IF a < b THEN a ELSE b
Max(a, b) == IF a > b THEN a ELSE b
saturating_sub(a, b) == IF a > b THEN a - b ELSE 0

\* (a as f32 / b as f32) as i32 for b > 0: the cast truncates toward zero.
\* For |a| < 2^16 and b <= 64 the f32 quotient lies on the same side of every
\* integer as the exact one, so the result is the truncated exact quotient.
f32_div_trunc(a, b) == IF a >= 0 THEN a \div b ELSE -((-a) \div b)

RECURSIVE Pow2Floor(_)
Pow2Floor(n) == IF n <= 1 THEN 1 ELSE 2 * Pow2Floor(n \div 2)

\* 0.55f32 as a numerator over 2^24.
MasterFactor055 == 9227469

\* 1.0 - master_factor in f32, for a master_factor in [0.5, 1): both are
\* numerators over 2^24, and the difference is exact.
one_minus(master_factor) == 2 ^ 24 - master_factor

\* (a as f32 * f) as i32 for 0 <= a < 2^19 and f = factor / 2^24: the exact
\* product is n + frac / 2^24; f32 keeps 24 significant bits and rounds to
\* nearest, which reaches n + 1 when the product is within half an ulp of it.
f32_mul_nonneg(a, factor) ==
    LET fh == factor \div 4096
        fl == factor % 4096
        low == a * fl
        upper == a * fh + (low \div 4096)
        n == upper \div 4096
        frac == (upper % 4096) * 4096 + (low % 4096)
    IN  IF n >= 1 /\ 2 ^ 24 - frac <= Pow2Floor(n) THEN n + 1 ELSE n

\* The product without the rounding of f32.
exact_mul_trunc(a, factor) ==
    LET fh == factor \div 4096
        fl == factor % 4096
        low == (IF a >= 0 THEN a ELSE -a) * fl
        upper == (IF a >= 0 THEN a ELSE -a) * fh + (low \div 4096)
    IN  IF a >= 0 THEN upper \div 4096 ELSE -(upper \div 4096)

f32_mul_trunc(a, factor) ==
    IF a >= 0 THEN f32_mul_nonneg(a, factor) ELSE -f32_mul_nonneg(-a, factor)

\* getgaps that keeps the outer gaps for a single window.
getgaps_outer_always(gaps, window_count, smartgaps_enabled) ==
    [outer_horizontal |-> gaps.outer_horizontal, outer_vertical |-> gaps.outer_vertical,
     inner_horizontal |-> gaps.inner_horizontal, inner_vertical |-> gaps.inner_vertical]

getgaps(gaps, window_count, smartgaps_enabled) ==
    LET outer_enabled == IF smartgaps_enabled /\ window_count = 1 THEN 0 ELSE 1
        inner_enabled == 1
    IN  [outer_horizontal |-> gaps.outer_horizontal * outer_enabled,
         outer_vertical |-> gaps.outer_vertical * outer_enabled,
         inner_horizontal |-> gaps.inner_horizontal * inner_enabled,
         inner_vertical |-> gaps.inner_vertical * inner_enabled]

\* getfacts that hands out no remainder pixel.
getfacts_no_remainder(window_count, num_master, master_size, stack_size) ==
    [master_facts |-> Min(window_count, Max(num_master, 0)),
     stack_facts |-> saturating_sub(window_count, Max(num_master, 0)),
     master_remainder |-> 0,
     stack_remainder |-> 0]

getfacts(window_count, num_master, master_size, stack_size) ==
    LET num_master_usize == Max(num_master, 0)
        master_facts == Min(window_count, num_master_usize)
        stack_facts == IF window_count > num_master_usize
                       THEN window_count - num_master_usize ELSE 0
        \* the loop adds one share per window of the area
        master_total == IF master_facts > 0
                        THEN master_facts * f32_div_trunc(master_size, master_facts) ELSE 0
        stack_total == IF stack_facts > 0
                       THEN stack_facts * f32_div_trunc(stack_size, stack_facts) ELSE 0
    IN  [master_facts |-> master_facts,
         stack_facts |-> stack_facts,
         master_remainder |-> master_size - master_total,
         stack_remainder |-> stack_size - stack_total]

RECURSIVE arrange_from(_, _, _, _)
arrange_from(i, master_y, stack_y, a) ==
    IF i >= a.window_count THEN <<>>
    ELSE IF i < a.num_master_usize
    THEN LET window_height ==
                 f32_div_trunc(a.master_height, a.facts.master_facts)
                 + (IF i < a.facts.master_remainder THEN 1 ELSE 0)
         IN  <<[x_coordinate |-> a.master_x, y_coordinate |-> master_y,
                width |-> as_u32(a.master_width), height |-> as_u32(window_height)]>>
             \o arrange_from(i + 1, master_y + window_height + a.inner_gap_horizontal,
                             stack_y, a)
    ELSE LET window_height ==
                 IF a.facts.stack_facts > 0
                 THEN f32_div_trunc(a.stack_height, a.facts.stack_facts)
                      + (IF i - a.num_master_usize < a.facts.stack_remainder THEN 1 ELSE 0)
                 ELSE a.stack_height
         IN  <<[x_coordinate |-> a.stack_x, y_coordinate |-> stack_y,
                width |-> as_u32(a.stack_width), height |-> as_u32(window_height)]>>
             \o arrange_from(i + 1, master_y,
                             stack_y + window_height + a.inner_gap_horizontal, a)

arrange(window_list, screen_width, screen_height, gaps, master_factor, num_master, smartgaps_enabled) ==
    LET window_count == Len(window_list)
        gap_values == getgaps(gaps, window_count, smartgaps_enabled)
        outer_gap_horizontal == gap_values.outer_horizontal
        outer_gap_vertical == gap_values.outer_vertical
        inner_gap_horizontal == gap_values.inner_horizontal
        inner_gap_vertical == gap_values.inner_vertical
        master_x == outer_gap_vertical
        num_master_usize == Max(num_master, 0)
        master_count == Min(window_count, num_master_usize)
        stack_count == saturating_sub(window_count, num_master_usize)
        master_height == screen_height - 2 * outer_gap_horizontal
                         - inner_gap_horizontal * saturating_sub(master_count, 1)
        stack_height == screen_height - 2 * outer_gap_horizontal
                        - inner_gap_horizontal * saturating_sub(stack_count, 1)
        full_width == screen_width - 2 * outer_gap_vertical
        split == num_master > 0 /\ window_count > num_master_usize
        stack_width == IF split
                       THEN f32_mul_trunc(full_width - inner_gap_vertical,
                                          one_minus(master_factor))
                       ELSE full_width
        master_width == IF split THEN full_width - inner_gap_vertical - stack_width
                        ELSE full_width
        stack_x == IF split THEN master_x + master_width + inner_gap_vertical
                   ELSE outer_gap_vertical
        facts == getfacts(window_count, num_master, master_height, stack_height)
    IN  IF window_count = 0 THEN <<>>
        ELSE arrange_from(0, outer_gap_horizontal, outer_gap_horizontal,
                          [window_count |-> window_count,
                           num_master_usize |-> num_master_usize,
                           master_x |-> master_x, stack_x |-> stack_x,
                           master_width |-> master_width, stack_width |-> stack_width,
                           master_height |-> master_height, stack_height |-> stack_height,
                           inner_gap_horizontal |-> inner_gap_horizontal,
                           facts |-> facts])

\* The windows apply_layout arranges on a monitor: the next_tiled walk.
tiled_on_monitor(s, mi) ==
    SelectSeq(TilingList(s, mi),
              LAMBDA w : /\ BitAnd(s.clients[w].tags, ActiveTags(s.monitors[mi])) # 0
                         /\ ~s.clients[w].is_floating)

\* What apply_layout computes for one monitor when the layout is not normie.
layout_monitor(s, mi, args) ==
    LET visible == tiled_on_monitor(s, mi)
    IN  [visible |-> visible,
         geometries |-> arrange(visible, args.screen_width, args.usable_height, args.gaps,
                                args.master_factor, args.num_master,
                                args.smartgaps_enabled)]

(***************************************************************************)
(* Client geometry and the size-hint engine.  The geometry fields of a     *)
(* Client are kept in `geometry`, beside the record of `clients`; a        *)
(* specification that leaves geometry out hands the operators a state      *)
(* without that component, and they then skip the geometry they would      *)
(* write.  WM_NORMAL_HINTS is the property the display server holds for a  *)
(* window; its flags are kept as a set of names and its values are below   *)
(* 2^31, where the cast from u32 to i32 keeps the value.                   *)
(***************************************************************************)
HasGeometry(s) == "geometry" \in DOMAIN s

\* i32 as i16 and i32 as u16: the low 16 bits.
as_i16(v) == ((v + 32768) % 65536) - 32768

as_u16(v) == v % 65536

\* A remainder that is never negative.
rem_euclid(a, b) == a % b

\* The remainder of Rust's % on i32: it has the sign of the dividend.
rem(a, b) == IF a >= 0 THEN a % b ELSE -((-a) % b)

\* f32 as i32 of n / d for d > 0: truncation toward zero.
trunc_div(n, d) == IF n >= 0 THEN n \div d ELSE -((-n) \div d)

\* An aspect ratio is kept as the exact quotient num / den; the ratios of the
\* model are dyadic and the sizes small, so every f32 operation on them is exact.
ZeroAspect == [num |-> 0, den |-> 1]

\* a < (w as f32 / h as f32) for a > 0, with the IEEE quotient by zero.
aspect_below_quotient(a, w, h) ==
    IF h = 0 THEN w > 0
    ELSE IF h > 0 THEN a.num * h < w * a.den
    ELSE a.num * h > w * a.den

\* (v as f32 * a + 0.5) as i32
scale_round(v, a) == trunc_div(2 * v * a.num + a.den, 2 * a.den)

NoProperty == [words |-> 0]

\* The geometry fields of Client::new followed by the assignments of
\* manage_window from the reply to get_geometry.
NewGeometry(reply, border_width) ==
    [x_position |-> reply.x, y_position |-> reply.y,
     width |-> reply.width, height |-> reply.height,
     old_x_position |-> reply.x, old_y_position |-> reply.y,
     old_width |-> reply.width, old_height |-> reply.height,
     old_border_width |-> reply.border_width, border_width |-> border_width,
     hints_valid |-> FALSE,
     base_width |-> 0, base_height |-> 0, min_width |-> 0, min_height |-> 0,
     max_width |-> 0, max_height |-> 0,
     increment_width |-> 0, increment_height |-> 0,
     min_aspect |-> ZeroAspect, max_aspect |-> ZeroAspect]

update_size_hints(s, window) ==
    LET size_hints == s.wm_normal_hints[window]
    IN  IF window \notin DOMAIN s.clients THEN s
        ELSE IF size_hints.words = 0 \/ size_hints.words < 18
        THEN [s EXCEPT !.geometry[window].hints_valid = FALSE]
        ELSE
        LET flags == size_hints.flags
            base == IF "P_BASE_SIZE" \in flags
                    THEN <<size_hints.base_width, size_hints.base_height>>
                    ELSE IF "P_MIN_SIZE" \in flags
                    THEN <<size_hints.min_width, size_hints.min_height>>
                    ELSE <<0, 0>>
            inc == IF "P_RESIZE_INC" \in flags
                   THEN <<size_hints.width_inc, size_hints.height_inc>>
                   ELSE <<0, 0>>
            max == IF "P_MAX_SIZE" \in flags
                   THEN <<size_hints.max_width, size_hints.max_height>>
                   ELSE <<0, 0>>
            min == IF "P_MIN_SIZE" \in flags
                   THEN <<size_hints.min_width, size_hints.min_height>>
                   ELSE IF "P_BASE_SIZE" \in flags
                   THEN <<size_hints.base_width, size_hints.base_height>>
                   ELSE <<0, 0>>
            min_aspect == IF "P_ASPECT" \in flags
                          THEN [num |-> size_hints.min_aspect_y,
                                den |-> Max(size_hints.min_aspect_x, 1)]
                          ELSE ZeroAspect
            max_aspect == IF "P_ASPECT" \in flags
                          THEN [num |-> size_hints.max_aspect_x,
                                den |-> Max(size_hints.max_aspect_y, 1)]
                          ELSE ZeroAspect
        IN  [s EXCEPT !.geometry[window] =
                          [@ EXCEPT !.base_width = base[1], !.base_height = base[2],
                                    !.increment_width = inc[1], !.increment_height = inc[2],
                                    !.max_width = max[1], !.max_height = max[2],
                                    !.min_width = min[1], !.min_height = min[2],
                                    !.min_aspect = min_aspect, !.max_aspect = max_aspect,
                                    !.hints_valid = TRUE],
                      !.clients[window].is_fixed =
                          /\ max[1] > 0 /\ max[2] > 0
                          /\ max[1] = min[1] /\ max[2] = min[2]]

\* Monitor::new: the window area of a monitor is its screen rectangle; the
\* monitors lie side by side.
monitor_area(s, monitor_index) ==
    [x |-> monitor_index * s.layout_args.screen_width, y |-> 0,
     width |-> s.layout_args.screen_width, height |-> s.layout_args.usable_height]

\* The steps of the size-hint arithmetic of apply_size_hints on a size
\* [w, h], for the hint fields g of one client.
subtract_base(g, size) ==
    [w |-> size.w - g.base_width, h |-> size.h - g.base_height]

adjust_aspect(g, size) ==
    IF g.min_aspect.num > 0 /\ g.max_aspect.num > 0
    THEN IF aspect_below_quotient(g.max_aspect, size.w, size.h)
         THEN [size EXCEPT !.w = scale_round(size.h, g.max_aspect)]
         ELSE IF aspect_below_quotient(g.min_aspect, size.h, size.w)
         THEN [size EXCEPT !.h = scale_round(size.w, g.min_aspect)]
         ELSE size
    ELSE size

round_to_increment(g, size) ==
    [w |-> IF g.increment_width > 0 THEN size.w - rem(size.w, g.increment_width) ELSE size.w,
     h |-> IF g.increment_height > 0 THEN size.h - rem(size.h, g.increment_height) ELSE size.h]

raise_to_min(g, size) ==
    [w |-> Max(size.w + g.base_width, g.min_width),
     h |-> Max(size.h + g.base_height, g.min_height)]

cap_at_max(g, size) ==
    [w |-> IF g.max_width > 0 THEN Min(size.w, g.max_width) ELSE size.w,
     h |-> IF g.max_height > 0 THEN Min(size.h, g.max_height) ELSE size.h]

hinted_size(g, size) ==
    IF g.base_width = g.min_width /\ g.base_height = g.min_height
    THEN cap_at_max(g, raise_to_min(g, round_to_increment(g,
             subtract_base(g, adjust_aspect(g, size)))))
    ELSE cap_at_max(g, raise_to_min(g, round_to_increment(g,
             adjust_aspect(g, subtract_base(g, size)))))

\* apply_size_hints up to the hints: w and h at least 1, the position pulled
\* back into the window area of the monitor, w and h at least bh = 20.
clamp_request_far_only(s, window, x, y, w, h) ==
    LET g == s.geometry[window]
        area == monitor_area(s, s.clients[window].monitor_index)
    IN  [x |-> IF x >= area.x + area.width
               THEN area.x + area.width - (g.width + 2 * g.border_width) ELSE x,
         y |-> IF y >= area.y + area.height
               THEN area.y + area.height - (g.height + 2 * g.border_width) ELSE y,
         w |-> Max(Max(w, 1), 20),
         h |-> Max(Max(h, 1), 20)]

clamp_request(s, window, x, y, w, h) ==
    LET g == s.geometry[window]
        area == monitor_area(s, s.clients[window].monitor_index)
        x1 == IF x >= area.x + area.width
              THEN area.x + area.width - (g.width + 2 * g.border_width) ELSE x
        y1 == IF y >= area.y + area.height
              THEN area.y + area.height - (g.height + 2 * g.border_width) ELSE y
    IN  [x |-> IF x1 + Max(w, 1) + 2 * g.border_width <= area.x THEN area.x ELSE x1,
         y |-> IF y1 + Max(h, 1) + 2 * g.border_width <= area.y THEN area.y ELSE y1,
         w |-> Max(Max(w, 1), 20),
         h |-> Max(Max(h, 1), 20)]

\* Hints applied whatever the client and the layout.
hints_apply_always(s, window) == TRUE

\* The hints are applied to a floating client and under the normie layout.
hints_apply(s, window) == s.clients[window].is_floating \/ s.layout = "normie"

\* apply_size_hints reads the hints again when they are not valid.
reread_hints(s, window) ==
    IF hints_apply(s, window) /\ ~s.geometry[window].hints_valid
    THEN update_size_hints(s, window) ELSE s

\* What apply_size_hints returns for the rectangle r it has arrived at.
report_change(s, window, r) ==
    [x |-> r.x, y |-> r.y, w |-> r.w, h |-> r.h,
     changed |-> r.x # s.geometry[window].x_position \/ r.y # s.geometry[window].y_position
                 \/ r.w # s.geometry[window].width \/ r.h # s.geometry[window].height,
     state |-> s]

apply_hints_to(s, window, r, size) ==
    report_change(s, window, [r EXCEPT !.w = size.w, !.h = size.h])

apply_valid_hints(s, window, r) ==
    IF hints_apply(s, window) /\ s.geometry[window].hints_valid
    THEN apply_hints_to(s, window, r, hinted_size(s.geometry[window], [w |-> r.w, h |-> r.h]))
    ELSE report_change(s, window, r)

\* apply_size_hints: the adjusted rectangle, whether it differs from the
\* client's, and the state, which a re-read of the hints may have changed.
apply_size_hints(s, window, x, y, w, h) ==
    IF window \notin DOMAIN s.clients
    THEN [x |-> x, y |-> y, w |-> w, h |-> h, changed |-> FALSE, state |-> s]
    ELSE apply_valid_hints(reread_hints(s, window), window,
                           clamp_request(s, window, x, y, w, h))

\* showhide: what it stores for a client when apply_size_hints returned r.
store_changed(window, r) ==
    IF r.changed
    THEN [r.state EXCEPT !.geometry[window] =
             [@ EXCEPT !.old_x_position = r.state.geometry[window].x_position,
                       !.old_y_position = r.state.geometry[window].y_position,
                       !.old_width = r.state.geometry[window].width,
                       !.old_height = r.state.geometry[window].height,
                       !.x_position = as_i16(r.x),
                       !.y_position = as_i16(r.y),
                       !.width = as_u16(r.w),
                       !.height = as_u16(r.h)]]
    ELSE r.state

\* showhide on one client of the stacking list.
showhide_client(s, window) ==
    IF window \notin DOMAIN s.clients THEN s
    ELSE IF /\ BitAnd(s.clients[window].tags,
                      ActiveTags(s.monitors[s.clients[window].monitor_index])) # 0
            /\ (s.layout = "normie" \/ s.clients[window].is_floating)
            /\ ~s.clients[window].is_fullscreen
    THEN store_changed(window,
             apply_size_hints(s, window,
                              s.geometry[window].x_position, s.geometry[window].y_position,
                              s.geometry[window].width, s.geometry[window].height))
    ELSE s

RECURSIVE showhide_each(_, _)
showhide_each(s, stack) ==
    IF stack = <<>> THEN s
    ELSE showhide_each(showhide_client(s, Head(stack)), Tail(stack))

\* showhide(stack_head): the walk along stack_next from the head.
showhide(s, monitor_index) == showhide_each(s, StackList(s, monitor_index))

RECURSIVE showhide_all(_, _)
showhide_all(s, monitor_index) ==
    IF monitor_index >= NumMonitors THEN s
    ELSE showhide_all(showhide(s, monitor_index), monitor_index + 1)

\* u32::saturating_sub of a small amount, and u32 as i32, on the two halves.
u32_saturating_sub(u, k) ==
    IF u.hi = 0 /\ u.lo < k THEN [hi |-> 0, lo |-> 0]
    ELSE IF u.lo >= k THEN [hi |-> u.hi, lo |-> u.lo - k]
    ELSE [hi |-> u.hi - 1, lo |-> u.lo + U16 - k]

u32_as_i32(u) == IF u.hi >= 2 ^ 15 THEN (u.hi - U16) * U16 + u.lo ELSE u.hi * U16 + u.lo

\* config.border_width of the default configuration.
BorderWidth == 2

\* apply_layout: what it stores for a tiled window at the position (x, y)
\* when apply_size_hints returned r for the rectangle without its border.
store_tiled(window, x, y, r) ==
    IF window \notin DOMAIN r.state.clients THEN r.state
    ELSE [r.state EXCEPT !.geometry[window] =
             [@ EXCEPT !.x_position = as_i16(x),
                       !.y_position = as_i16(y),
                       !.width = as_u16(r.w),
                       !.height = as_u16(r.h),
                       !.border_width = BorderWidth]]

\* The body of the loop of apply_layout over visible.zip(geometries).  The
\* window comes from the next_tiled walk, so it has a client that does not
\* float; no bar is shown, so bar_height is 0.
place_tiled(s, monitor_index, window, tile) ==
    store_tiled(window,
                tile.x_coordinate + monitor_area(s, monitor_index).x,
                tile.y_coordinate + monitor_area(s, monitor_index).y,
                apply_size_hints(s, window, tile.x_coordinate, tile.y_coordinate,
                    u32_as_i32(u32_saturating_sub(tile.width, 2 * BorderWidth)),
                    u32_as_i32(u32_saturating_sub(tile.height, 2 * BorderWidth))))

RECURSIVE place_zip(_, _, _, _)
place_zip(s, monitor_index, visible, geometries) ==
    IF visible = <<>> \/ geometries = <<>> THEN s
    ELSE place_zip(place_tiled(s, monitor_index, Head(visible), Head(geometries)),
                   monitor_index, Tail(visible), Tail(geometries))

place_laid_out(s, monitor_index, laid) ==
    place_zip(s, monitor_index, laid.visible, laid.geometries)

RECURSIVE arrange_all(_, _)
arrange_all(s, monitor_index) ==
    IF monitor_index >= NumMonitors THEN s
    ELSE arrange_all(place_laid_out(s, monitor_index,
                                    layout_monitor(s, monitor_index, s.layout_args)),
                     monitor_index + 1)

arrange_unless_normie(s) == IF s.layout = "normie" THEN s ELSE arrange_all(s, 0)

\* apply_layout: showhide for every monitor, the tiled rectangles unless the
\* layout is normie, showhide again.  What follows in the code maps and
\* unmaps bars and configures windows on the display only.
apply_layout(s) ==
    IF ~HasGeometry(s) THEN s
    ELSE showhide_all(arrange_unless_normie(showhide_all(s, 0)), 0)

(***************************************************************************)
(* Focus.                                                                  *)
(***************************************************************************)
\* set_urgent without the store into the client.
set_urgent_not_stored(s, window, urgent) == s

set_urgent(s, window, urgent) ==
    IF window \in DOMAIN s.clients
    THEN [s EXCEPT !.clients[window].is_urgent = urgent]
    ELSE s

\* The client focus settles on: the window when it is visible, otherwise the
\* first visible client of the stacking list of the selected monitor.
focus_target(s, window) ==
    IF window = None \/ ~is_visible(s, window)
    THEN FirstVisibleInStack(s, s.monitors[s.selected_monitor].stack_head)
    ELSE window

\* focus without the reset of the urgency flag.
clear_urgent_skipped(s, window) == s

clear_urgent(s, window) ==
    IF s.clients[window].is_urgent THEN set_urgent(s, window, FALSE) ELSE s

select_client(s, window) ==
    [s EXCEPT !.monitors[s.selected_monitor].selected_client = window]

\* focus once the client is known: its monitor becomes the selected one, its
\* urgency is cleared, it moves to the head of the stacking list.
focus_client(s, window) ==
    IF window # None
    THEN select_client(
             attach_stack(
                 detach_stack(
                     clear_urgent([s EXCEPT !.selected_monitor = s.clients[window].monitor_index],
                                  window),
                     window),
                 window, s.clients[window].monitor_index),
             window)
    ELSE select_client(s, None)

focus(s, window) == focus_client(s, focus_target(s, window))

\* A state that carries the order in which restack configured the windows.
HasStacking(s) == "z_order" \in DOMAIN s

\* restack: the selected client when it is in floating_windows, the other
\* windows of floating_windows along the stacking list of the selected
\* monitor, then the windows outside floating_windows along the same list;
\* the first is raised and each other one is put below its predecessor.
windows_to_restack(s, selected, stack) ==
    (IF selected # None /\ selected \in s.floating_windows THEN <<selected>> ELSE <<>>)
    \o SelectSeq(stack, LAMBDA win : /\ Contains(s.windows, win)
                                     /\ win \in s.floating_windows
                                     /\ win # selected)
    \o SelectSeq(stack, LAMBDA win : /\ Contains(s.windows, win)
                                     /\ win \notin s.floating_windows)

restack(s) ==
    IF HasStacking(s)
    THEN [s EXCEPT !.z_order =
             windows_to_restack(s, s.monitors[s.selected_monitor].selected_client,
                                StackList(s, s.selected_monitor))]
    ELSE s

(***************************************************************************)
(* Tags and views.                                                         *)
(***************************************************************************)
\* view_tag on the tag sets of the selected monitor: the two slots swap when
\* the tag is the one in view, otherwise the other slot takes the tag.
\* view_tag that writes the mask into the slot in use.
view_tagset_in_place(s, tag_index) ==
    [s EXCEPT !.monitors[s.selected_monitor].tagset[
                  s.monitors[s.selected_monitor].selected_tags_index] = tag_mask(tag_index)]

\* view_tag that leaves the slots alone when the tag is already shown.
view_tagset_no_swap(s, tag_index) ==
    IF tag_mask(tag_index) = ActiveTags(s.monitors[s.selected_monitor]) THEN s
    ELSE [s EXCEPT !.monitors[s.selected_monitor].selected_tags_index = 1 - @,
                   !.monitors[s.selected_monitor].tagset[
                        1 - s.monitors[s.selected_monitor].selected_tags_index] =
                       tag_mask(tag_index)]

view_tagset(s, tag_index) ==
    IF tag_mask(tag_index) = ActiveTags(s.monitors[s.selected_monitor])
    THEN [s EXCEPT !.monitors[s.selected_monitor].tagset =
             (0 :> s.monitors[s.selected_monitor].tagset[1]
              @@ 1 :> s.monitors[s.selected_monitor].tagset[0])]
    ELSE [s EXCEPT !.monitors[s.selected_monitor].selected_tags_index = 1 - @,
                   !.monitors[s.selected_monitor].tagset[
                        1 - s.monitors[s.selected_monitor].selected_tags_index] =
                       tag_mask(tag_index)]

view_tag(s, tag_index) ==
    IF tag_index >= NumTags THEN s
    ELSE IF /\ tag_mask(tag_index) = ActiveTags(s.monitors[s.selected_monitor])
            /\ ~s.config.tag_back_and_forth
    THEN s
    ELSE apply_layout(focus(view_tagset(s, tag_index), None))

\* toggleview without the refusal of an empty view.
toggleview_unguarded(s, tag_index) ==
    IF tag_index >= NumTags THEN s
    ELSE LET sm == s.selected_monitor
             monitor == s.monitors[sm]
             new_tagset == BitXor(ActiveTags(monitor), tag_mask(tag_index))
         IN  apply_layout(focus(
                 [s EXCEPT !.monitors[sm].tagset[monitor.selected_tags_index] = new_tagset],
                 None))

toggleview(s, tag_index) ==
    IF tag_index >= NumTags THEN s
    ELSE LET sm == s.selected_monitor
             monitor == s.monitors[sm]
             new_tagset == BitXor(ActiveTags(monitor), tag_mask(tag_index))
         IN  IF new_tagset = 0 THEN s
             ELSE apply_layout(focus(
                      [s EXCEPT !.monitors[sm].tagset[monitor.selected_tags_index] = new_tagset],
                      None))

\* u32::to_ne_bytes and u32::from_ne_bytes on a machine that stores the low
\* byte first.
to_ne_bytes(tag) ==
    <<tag % 256, (tag \div 256) % 256, (tag \div 65536) % 256, (tag \div 16777216) % 256>>

from_ne_bytes(bytes) ==
    bytes[1] + 256 * bytes[2] + 65536 * bytes[3] + 16777216 * bytes[4]

\* A state that carries the _NET_CLIENT_INFO property of the windows.
HasProperties(s) == "net_client_info" \in DOMAIN s

\* save_client_tag replaces the property of the window by the four bytes of
\* the mask.
save_client_tag(s, window, tag) ==
    IF HasProperties(s)
    THEN [s EXCEPT !.net_client_info[window] = to_ne_bytes(tag)]
    ELSE s

set_client_tags(s, window, tags) ==
    IF window \in DOMAIN s.clients
    THEN [s EXCEPT !.clients[window].tags = tags]
    ELSE s

retag_focused(s, focused, tags) ==
    apply_layout(focus(save_client_tag(set_client_tags(s, focused, tags), focused, tags),
                       None))

move_to_tag(s, tag_index) ==
    IF tag_index >= NumTags THEN s
    ELSE IF s.monitors[s.selected_monitor].selected_client = None THEN s
    ELSE retag_focused(s, s.monitors[s.selected_monitor].selected_client,
                       tag_mask(tag_index))

toggled_tags(s, focused, tag_index) ==
    BitXor(IF focused \in DOMAIN s.clients THEN s.clients[focused].tags ELSE 0,
           tag_mask(tag_index))

toggletag(s, tag_index) ==
    IF tag_index >= NumTags THEN s
    ELSE IF s.monitors[s.selected_monitor].selected_client = None THEN s
    ELSE IF toggled_tags(s, s.monitors[s.selected_monitor].selected_client, tag_index) = 0
    THEN s
    ELSE retag_focused(s, s.monitors[s.selected_monitor].selected_client,
                       toggled_tags(s, s.monitors[s.selected_monitor].selected_client,
                                    tag_index))

(***************************************************************************)
(* Floating and fullscreen.                                                *)
(***************************************************************************)
toggle_floating_of(s, focused) ==
    IF focused \in s.floating_windows
    THEN [s EXCEPT !.floating_windows = @ \ {focused},
                   !.clients[focused].is_floating = FALSE]
    ELSE [s EXCEPT !.floating_windows = @ \cup {focused},
                   !.clients[focused].is_floating =
                       s.clients[focused].is_fixed \/ ~s.clients[focused].is_floating]

toggle_floating(s) ==
    IF s.monitors[s.selected_monitor].selected_client = None THEN s
    ELSE IF s.monitors[s.selected_monitor].selected_client \notin DOMAIN s.clients THEN s
    ELSE IF s.clients[s.monitors[s.selected_monitor].selected_client].is_fullscreen THEN s
    ELSE apply_layout(toggle_floating_of(s, s.monitors[s.selected_monitor].selected_client))

\* The geometry that set_window_fullscreen saves on entry and puts back on exit.
save_geometry(s, window) ==
    IF ~HasGeometry(s) THEN s
    ELSE LET g == s.geometry[window]
         IN  [s EXCEPT !.geometry[window] =
                 [g EXCEPT !.old_border_width = g.border_width,
                           !.old_x_position = g.x_position,
                           !.old_y_position = g.y_position,
                           !.old_width = g.width,
                           !.old_height = g.height,
                           !.border_width = 0]]

\* The exit without the border width.
restore_rectangle_only(s, window) ==
    IF ~HasGeometry(s) THEN s
    ELSE LET g == s.geometry[window]
         IN  [s EXCEPT !.geometry[window] =
                 [g EXCEPT !.x_position = g.old_x_position,
                           !.y_position = g.old_y_position,
                           !.width = g.old_width,
                           !.height = g.old_height]]

restore_geometry(s, window) ==
    IF ~HasGeometry(s) THEN s
    ELSE LET g == s.geometry[window]
         IN  [s EXCEPT !.geometry[window] =
                 [g EXCEPT !.border_width = g.old_border_width,
                           !.x_position = g.old_x_position,
                           !.y_position = g.old_y_position,
                           !.width = g.old_width,
                           !.height = g.old_height]]

set_window_fullscreen(s, window, fullscreen) ==
    IF fullscreen /\ window \notin s.fullscreen_windows
    THEN LET s0 == IF window \in DOMAIN s.clients
                   THEN [s EXCEPT !.clients[window].is_fullscreen = TRUE,
                                  !.clients[window].old_state = s.clients[window].is_floating,
                                  !.clients[window].is_floating = TRUE]
                   ELSE s
             s1 == IF window \in DOMAIN s.clients THEN save_geometry(s0, window) ELSE s0
         IN  [s1 EXCEPT !.fullscreen_windows = @ \cup {window},
                        !.floating_windows = @ \cup {window}]
    ELSE IF ~fullscreen /\ window \in s.fullscreen_windows
    THEN LET was_floating == IF window \in DOMAIN s.clients
                             THEN s.clients[window].old_state ELSE FALSE
             s1 == [s EXCEPT !.fullscreen_windows = @ \ {window},
                             !.floating_windows = IF was_floating THEN @ ELSE @ \ {window}]
             s2 == IF window \in DOMAIN s1.clients
                   THEN restore_geometry(
                            [s1 EXCEPT !.clients[window].is_fullscreen = FALSE,
                                       !.clients[window].is_floating = s1.clients[window].old_state],
                            window)
                   ELSE s1
         IN  apply_layout(s2)
    ELSE s

\* The ConfigureRequest arm of handle_event for a window of the registry.
\* configure_request without the branch that only answers a fullscreen client.
configure_request_while_fullscreen(s, event) ==
    IF event.window \notin DOMAIN s.clients THEN s
    ELSE
    LET client == s.clients[event.window]
        g == s.geometry[event.window]
        area == monitor_area(s, client.monitor_index)
        mask == event.value_mask
    IN  IF "BORDER_WIDTH" \in mask
        THEN [s EXCEPT !.geometry[event.window].border_width = event.border_width]
        ELSE IF client.is_floating \/ s.layout = "normie"
        THEN [s EXCEPT !.geometry[event.window] =
                 [g EXCEPT !.old_x_position = IF "X" \in mask THEN g.x_position ELSE @,
                           !.old_y_position = IF "Y" \in mask THEN g.y_position ELSE @,
                           !.old_width = IF "WIDTH" \in mask THEN g.width ELSE @,
                           !.old_height = IF "HEIGHT" \in mask THEN g.height ELSE @,
                           !.x_position =
                               as_i16(IF "X" \in mask THEN area.x + event.x ELSE g.x_position),
                           !.y_position =
                               as_i16(IF "Y" \in mask THEN area.y + event.y ELSE g.y_position),
                           !.width = as_u16(IF "WIDTH" \in mask THEN event.width ELSE g.width),
                           !.height =
                               as_u16(IF "HEIGHT" \in mask THEN event.height ELSE g.height)]]
        ELSE s

configure_request(s, event) ==
    IF event.window \notin DOMAIN s.clients THEN s
    ELSE
    LET client == s.clients[event.window]
        g == s.geometry[event.window]
        area == monitor_area(s, client.monitor_index)
        has_layout == s.layout # "normie"
        mask == event.value_mask
    IN  IF "BORDER_WIDTH" \in mask
        THEN [s EXCEPT !.geometry[event.window].border_width = event.border_width]
        ELSE IF client.is_fullscreen THEN s
        ELSE IF client.is_floating \/ ~has_layout
        THEN LET x0 == IF "X" \in mask THEN area.x + event.x ELSE g.x_position
                 y0 == IF "Y" \in mask THEN area.y + event.y ELSE g.y_position
                 w == IF "WIDTH" \in mask THEN event.width ELSE g.width
                 h == IF "HEIGHT" \in mask THEN event.height ELSE g.height
                 bw == BorderWidth
                 width_with_border == w + 2 * bw
                 height_with_border == h + 2 * bw
                 x == IF x0 + w > area.x + area.width /\ client.is_floating
                      THEN area.x + (trunc_div(area.width, 2) - trunc_div(width_with_border, 2))
                      ELSE x0
                 y == IF y0 + h > area.y + area.height /\ client.is_floating
                      THEN area.y + (trunc_div(area.height, 2) - trunc_div(height_with_border, 2))
                      ELSE y0
             IN  [s EXCEPT !.geometry[event.window] =
                     [g EXCEPT !.old_x_position = IF "X" \in mask THEN g.x_position ELSE @,
                               !.old_y_position = IF "Y" \in mask THEN g.y_position ELSE @,
                               !.old_width = IF "WIDTH" \in mask THEN g.width ELSE @,
                               !.old_height = IF "HEIGHT" \in mask THEN g.height ELSE @,
                               !.x_position = as_i16(x),
                               !.y_position = as_i16(y),
                               !.width = as_u16(w),
                               !.height = as_u16(h)]]
        ELSE s

fullscreen(s) ==
    LET focused_window == s.monitors[s.selected_monitor].selected_client
    IN  IF focused_window = None THEN s
        ELSE set_window_fullscreen(s, focused_window,
                                   ~(focused_window \in s.fullscreen_windows))

(***************************************************************************)
(* Window lifecycle: manage_window, remove_window, move_window_to_monitor. *)
(***************************************************************************)
\* What the display server answers about a window that is being managed:
\* its transient parent, the merged result of the rules that match it, its
\* window type and state atoms, and whether its size hints make it fixed.
NoRule ==
    [rule_tags |-> None, rule_floating |-> "unset", rule_monitor |-> -1,
     rule_focus |-> FALSE]

PlainWindow ==
    [parent |-> None, rule |-> NoRule, dialog |-> FALSE, fixed |-> FALSE,
     fullscreen |-> FALSE,
     geometry |-> [x |-> 0, y |-> 0, width |-> 100, height |-> 100, border_width |-> 0]]

\* apply_rules: the floating rule, the monitor rule, the tag rule in turn.
apply_floating_rule(s, window, rule) ==
    IF rule.rule_floating = "unset" THEN s
    ELSE [s EXCEPT !.clients[window].is_floating = (rule.rule_floating = "yes"),
                   !.floating_windows =
                       IF rule.rule_floating = "yes"
                       THEN @ \cup {window} ELSE @ \ {window}]

apply_monitor_rule(s, window, rule) ==
    IF rule.rule_monitor >= 0 /\ rule.rule_monitor < NumMonitors
    THEN [s EXCEPT !.clients[window].monitor_index = rule.rule_monitor]
    ELSE s

\* With the tags of the rule stored: the view follows when the rule asks for
\* the focus and the monitor of the client does not show all of the tags.
follow_tag_rule(s, window, rule) ==
    IF /\ rule.rule_focus
       /\ BitAnd(ActiveTags(s.monitors[s.clients[window].monitor_index]), rule.rule_tags)
              # rule.rule_tags
    THEN view_tag(s, unmask_tag(rule.rule_tags))
    ELSE s

apply_tag_rule(s, window, rule) ==
    IF rule.rule_tags = None THEN s
    ELSE follow_tag_rule([s EXCEPT !.clients[window].tags = rule.rule_tags], window, rule)

apply_rules(s, window, rule) ==
    IF window \notin DOMAIN s.clients THEN s
    ELSE apply_tag_rule(apply_monitor_rule(apply_floating_rule(s, window, rule),
                                           window, rule),
                        window, rule)

mark_dialog(s, window, in) ==
    IF in.dialog
    THEN [s EXCEPT !.clients[window].is_floating = TRUE,
                   !.floating_windows = @ \cup {window}]
    ELSE s

update_window_type(s, window, in) ==
    IF in.fullscreen
    THEN mark_dialog(set_window_fullscreen(s, window, TRUE), window, in)
    ELSE mark_dialog(s, window, in)

\* manage_window up to and including the registry insert and the rules.
insert_client(s, window, in, monitor_index, tags) ==
    IF HasGeometry(s)
    THEN [s EXCEPT !.clients = (window :> NewClient(monitor_index, tags)) @@ @,
                   !.geometry = (window :> NewGeometry(in.geometry, BorderWidth)) @@ @]
    ELSE [s EXCEPT !.clients = (window :> NewClient(monitor_index, tags)) @@ @]

insert_with_rules(s, window, in) == apply_rules(s, window, in.rule)

manage_insert(s, window, in) ==
    IF in.parent # None
    THEN IF in.parent \in DOMAIN s.clients
         THEN insert_client(s, window, in, s.clients[in.parent].monitor_index,
                            s.clients[in.parent].tags)
         ELSE insert_client(s, window, in, s.selected_monitor,
                            ActiveTags(s.monitors[s.selected_monitor]))
    ELSE insert_with_rules(
             insert_client(s, window, in, s.selected_monitor,
                           ActiveTags(s.monitors[s.selected_monitor])),
             window, in)

\* manage_window moves the new client into the window area of its monitor.
clamp_into_area(s, window) ==
    IF ~HasGeometry(s) THEN s
    ELSE LET g == s.geometry[window]
             area == monitor_area(s, s.clients[window].monitor_index)
             bw == BorderWidth
             x == IF g.x_position + g.width + 2 * bw > area.x + area.width
                  THEN area.x + area.width - g.width - 2 * bw ELSE g.x_position
             y == IF g.y_position + g.height + 2 * bw > area.y + area.height
                  THEN area.y + area.height - g.height - 2 * bw ELSE g.y_position
         IN  [s EXCEPT !.geometry[window].x_position = as_i16(Max(x, area.x)),
                       !.geometry[window].y_position = as_i16(Max(y, area.y))]

\* manage_window after the window type: the size hints decide is_fixed.
manage_hints(s, window, in) ==
    IF HasGeometry(s) THEN update_size_hints(s, window)
    ELSE [s EXCEPT !.clients[window].is_fixed = in.fixed]

\* A client that does not float yet floats when it is transient or fixed.
manage_floating(s, window, in) ==
    IF ~s.clients[window].is_floating
    THEN [s EXCEPT !.clients[window].is_floating = (in.parent # None) \/ s.clients[window].is_fixed,
                   !.clients[window].old_state = (in.parent # None) \/ s.clients[window].is_fixed,
                   !.floating_windows =
                       IF (in.parent # None) \/ s.clients[window].is_fixed THEN @ \cup {window} ELSE @]
    ELSE [s EXCEPT !.floating_windows = @ \cup {window}]

manage_attach(s, window) ==
    save_client_tag(
        [attach_stack(attach_aside(s, window, s.clients[window].monitor_index),
                      window, s.clients[window].monitor_index)
            EXCEPT !.windows = Append(@, window)],
        window, s.clients[window].tags)

manage_window(s, window, in) ==
    focus(
        apply_layout(
            manage_attach(
                manage_floating(
                    manage_hints(
                        update_window_type(
                            clamp_into_area(manage_insert(s, window, in), window),
                            window, in),
                        window, in),
                    window, in),
                window)),
        None)

LastOr(seq, default) == IF Len(seq) = 0 THEN default ELSE seq[Len(seq)]

\* remove_window on the registry, the two lists, the window list and the set
\* of floating windows.
forget_window(s, window) ==
    IF window \in DOMAIN s.clients
    THEN IF HasGeometry(s)
         THEN [detach_stack(detach(s, window), window)
                  EXCEPT !.clients = RemoveKey(@, window),
                         !.geometry = RemoveKey(@, window),
                         !.windows = Retain(@, window),
                         !.floating_windows = @ \ {window}]
         ELSE [detach_stack(detach(s, window), window)
                  EXCEPT !.clients = RemoveKey(@, window),
                         !.windows = Retain(@, window),
                         !.floating_windows = @ \ {window}]
    ELSE [s EXCEPT !.windows = Retain(@, window),
                   !.floating_windows = @ \ {window}]

\* The focus when the removed window was the focused one.
refocus_visible(s, visible) ==
    IF Len(visible) > 0 THEN focus(s, LastOr(visible, None))
    ELSE [s EXCEPT !.monitors[s.selected_monitor].selected_client = None]

refocus_after_remove(s, was_focused) ==
    IF was_focused
    THEN refocus_visible(s, visible_windows_on_monitor(s, s.selected_monitor))
    ELSE s

removed_from(s, s2, window) ==
    IF Len(s2.windows) < Len(s.windows)
    THEN apply_layout(refocus_after_remove(
             s2, s.monitors[s.selected_monitor].selected_client = window))
    ELSE s2

remove_window(s, window) == removed_from(s, forget_window(s, window), window)

retag_for_monitor(s, window, target_monitor_index) ==
    IF window \in DOMAIN s.clients
    THEN [s EXCEPT !.clients[window].monitor_index = target_monitor_index,
                   !.clients[window].tags = ActiveTags(s.monitors[target_monitor_index])]
    ELSE s

move_window_to_monitor(s, window, target_monitor_index) ==
    IF window \in DOMAIN s.clients
       /\ s.clients[window].monitor_index = target_monitor_index
    THEN s
    ELSE apply_layout(focus(
             attach_stack(
                 attach_aside(
                     retag_for_monitor(detach_stack(detach(s, window), window),
                                       window, target_monitor_index),
                     window, target_monitor_index),
                 window, target_monitor_index),
             None))

get_adjacent_monitor(s, direction) ==
    IF NumMonitors <= 1 THEN -1
    ELSE IF direction > 0
         THEN IF s.selected_monitor + 1 < NumMonitors THEN s.selected_monitor + 1 ELSE 0
         ELSE IF s.selected_monitor = 0 THEN NumMonitors - 1
              ELSE s.selected_monitor - 1

focus_monitor(s, direction) ==
    IF NumMonitors <= 1 THEN s
    ELSE LET target_monitor == get_adjacent_monitor(s, direction)
         IN  IF target_monitor = -1 \/ target_monitor = s.selected_monitor THEN s
             ELSE focus([s EXCEPT !.selected_monitor = target_monitor], None)

send_window_to_adjacent_monitor(s, direction) ==
    IF NumMonitors <= 1 THEN s
    ELSE LET window == s.monitors[s.selected_monitor].selected_client
             target_monitor == get_adjacent_monitor(s, direction)
         IN  IF window = None \/ target_monitor = -1 THEN s
             ELSE move_window_to_monitor(s, window, target_monitor)

(***************************************************************************)
(* focusstack, move_stack, drag_window.                                    *)
(***************************************************************************)
VisibleTiled(s, mi) ==
    SelectSeq(TilingList(s, mi),
              LAMBDA w : /\ BitAnd(s.clients[w].tags, ActiveTags(s.monitors[mi])) # 0
                         /\ ~s.clients[w].is_floating)

IndexOf(seq, x) ==
    IF Contains(seq, x) THEN CHOOSE i \in 1..Len(seq) : seq[i] = x /\ \A j \in 1..(i - 1) : seq[j] # x
    ELSE 0

focusstack(s, direction) ==
    LET sm == s.selected_monitor
        selected_window == s.monitors[sm].selected_client
    IN  IF selected_window = None THEN s
        ELSE IF selected_window \in DOMAIN s.clients /\ s.clients[selected_window].is_fullscreen THEN s
        ELSE LET stack_windows == VisibleTiled(s, sm)
                 n == Len(stack_windows)
                 index == IndexOf(stack_windows, selected_window)
             IN  IF n = 0 \/ index = 0 THEN s
                 ELSE LET next_window ==
                              IF direction > 0
                              THEN IF index + 1 <= n THEN stack_windows[index + 1] ELSE stack_windows[1]
                              ELSE IF index > 1 THEN stack_windows[index - 1] ELSE stack_windows[n]
                      IN  restack(focus(s, next_window))

\* The client move_stack exchanges the selected one with: the next tiled
\* visible client, wrapping to the first, or the previous, wrapping to the last.
move_stack_target(s, mi, selected, direction) ==
    IF direction > 0
    THEN IF next_tiled(s, s.clients[selected].next, mi) # None
         THEN next_tiled(s, s.clients[selected].next, mi)
         ELSE next_tiled(s, s.monitors[mi].clients_head, mi)
    ELSE LastOr(SelectSeq(VisibleTiled(s, mi),
                          LAMBDA w : IndexOf(TilingList(s, mi), w)
                                         < IndexOf(TilingList(s, mi), selected)),
                LastOr(VisibleTiled(s, mi), None))

\* The client whose next link is the window, None for the head of the list.
previous_in_list(s, mi, window) ==
    LastOr(SelectSeq(TilingList(s, mi), LAMBDA w : s.clients[w].next = window), None)

\* The exchange of two clients of the tiling list, given their predecessors.
\* swap_head that leaves the head alone when the target is the head.
swap_head_selected_only(s, mi, selected, target) ==
    IF s.monitors[mi].clients_head = selected
    THEN [s EXCEPT !.monitors[mi].clients_head = target]
    ELSE s

swap_head(s, mi, selected, target) ==
    IF s.monitors[mi].clients_head = selected
    THEN [s EXCEPT !.monitors[mi].clients_head = target]
    ELSE IF s.monitors[mi].clients_head = target
    THEN [s EXCEPT !.monitors[mi].clients_head = selected]
    ELSE s

swap_previous(s, selected, target, prev_selected, prev_target) ==
    [s EXCEPT !.clients =
        [w \in DOMAIN s.clients |->
            IF w = prev_target /\ prev_target # selected
            THEN [s.clients[w] EXCEPT !.next = selected]
            ELSE IF w = prev_selected /\ prev_selected # target
            THEN [s.clients[w] EXCEPT !.next = target]
            ELSE s.clients[w]]]

swap_next(s, selected, target) ==
    [s EXCEPT !.clients =
        [w \in DOMAIN s.clients |->
            IF w = target
            THEN [s.clients[w] EXCEPT !.next =
                     IF s.clients[selected].next = target THEN selected
                     ELSE s.clients[selected].next]
            ELSE IF w = selected
            THEN [s.clients[w] EXCEPT !.next =
                     IF s.clients[target].next = selected THEN target
                     ELSE s.clients[target].next]
            ELSE s.clients[w]]]

swap_clients(s, mi, selected, target, prev_selected, prev_target) ==
    swap_head(swap_previous(swap_next(s, selected, target),
                            selected, target, prev_selected, prev_target),
              mi, selected, target)

move_stack_with(s, mi, selected, target) ==
    IF target = None \/ target = selected THEN s
    ELSE apply_layout(swap_clients(s, mi, selected, target,
                                   previous_in_list(s, mi, selected),
                                   previous_in_list(s, mi, target)))

move_stack(s, direction) ==
    IF s.monitors[s.selected_monitor].selected_client = None THEN s
    ELSE IF s.monitors[s.selected_monitor].selected_client \notin DOMAIN s.clients THEN s
    ELSE move_stack_with(s, s.selected_monitor,
                         s.monitors[s.selected_monitor].selected_client,
                         move_stack_target(s, s.selected_monitor,
                                           s.monitors[s.selected_monitor].selected_client,
                                           direction))

\* The tiled clients that tiled_window_at can return for some drop point.
DropTargets(s, exclude, monitor_idx) ==
    {w \in DOMAIN s.clients :
        /\ Contains(VisibleTiled(s, monitor_idx), w)
        /\ w # exclude}

\* drag_window: `new_monitor` is the monitor get_monitor_for_rect finds for
\* the rectangle the pointer motion left the window at, `target` the tiled
\* client under the centre of that rectangle (None when there is none).
drag_float(s, window) ==
    IF ~s.clients[window].is_floating /\ s.layout # "normie" THEN toggle_floating(s) ELSE s

\* The window follows the pointer to another monitor when it floats by now.
drag_move(s, window, new_monitor, monitor_idx) ==
    IF (s.layout = "normie" \/ s.clients[window].is_floating) /\ new_monitor # monitor_idx
    THEN focus([move_window_to_monitor(s, window, new_monitor)
                   EXCEPT !.selected_monitor = new_monitor], None)
    ELSE s

drag_drop(s, window, target) ==
    IF target \in DropTargets(s, window, s.clients[window].monitor_index)
    THEN [insert_before(detach(s, window), window, target, s.clients[window].monitor_index)
             EXCEPT !.floating_windows = @ \ {window},
                    !.clients[window].is_floating = FALSE]
    ELSE [s EXCEPT !.floating_windows = @ \ {window},
                   !.clients[window].is_floating = FALSE]

\* The end of the drag: a window that was tiled goes back into the tiling.
drag_finish(s, window, target, retile) ==
    IF retile THEN apply_layout(drag_drop(s, window, target)) ELSE s

drag_window(s, window, new_monitor, target) ==
    IF window \notin DOMAIN s.clients THEN s
    ELSE IF s.clients[window].is_fullscreen THEN s
    ELSE drag_finish(drag_move(drag_float(s, window), window, new_monitor,
                               s.clients[window].monitor_index),
                     window, target,
                     s.config.auto_tile /\ ~s.clients[window].is_floating
                         /\ s.layout # "normie")

(***************************************************************************)
(* The keychord state machine (keyboard/handlers.rs) and the KeyPress arm  *)
(* of handle_event.  Positions in keybindings and in a chord count from 1  *)
(* here and from 0 in the code.                                            *)
(***************************************************************************)
LOCK == 2
M2 == 16
MOD4 == 64

BitOr(a, b) == a + b - BitAnd(a, b)

RECURSIVE FoldOr(_)
FoldOr(masks) == IF masks = <<>> THEN 0 ELSE BitOr(masks[1], FoldOr(Tail(masks)))

modifiers_to_mask(modifiers) == FoldOr(modifiers)

\* event.state & !(LOCK | M2)
clean(state) == state - BitAnd(state, BitOr(LOCK, M2))

Idle == [kind |-> "Idle"]
InProgress(candidates, keys_pressed) ==
    [kind |-> "InProgress", candidates |-> candidates, keys_pressed |-> keys_pressed]

ResultNone == [kind |-> "None"]
ResultCancelled == [kind |-> "Cancelled"]
ResultInProgress(candidates) == [kind |-> "InProgress", candidates |-> candidates]
ResultCompleted(binding) == [kind |-> "Completed", func |-> binding.func, arg |-> binding.arg]

Indices(seq, P(_)) == SelectSeq([i \in 1..Len(seq) |-> i], P)

\* handle_first_key that starts a chord whenever a longer binding matches.
handle_first_key_chords_first(event, bindings) ==
    LET Matches(i) ==
            /\ bindings[i].keys # <<>>
            /\ event.keysym = bindings[i].keys[1].keysym
            /\ clean(event.state) = modifiers_to_mask(bindings[i].keys[1].modifiers)
        single == Indices(bindings, LAMBDA i : Matches(i) /\ Len(bindings[i].keys) = 1)
        candidates == Indices(bindings, LAMBDA i : Matches(i) /\ Len(bindings[i].keys) # 1)
    IN  IF candidates # <<>> THEN ResultInProgress(candidates)
        ELSE IF single # <<>> THEN ResultCompleted(bindings[single[1]])
        ELSE ResultNone

handle_first_key(event, bindings) ==
    LET clean_state == clean(event.state)
        Matches(i) ==
            /\ bindings[i].keys # <<>>
            /\ event.keysym = bindings[i].keys[1].keysym
            /\ clean_state = modifiers_to_mask(bindings[i].keys[1].modifiers)
        single == Indices(bindings, LAMBDA i : Matches(i) /\ Len(bindings[i].keys) = 1)
        candidates == Indices(bindings, LAMBDA i : Matches(i) /\ Len(bindings[i].keys) # 1)
    IN  IF single # <<>> THEN ResultCompleted(bindings[single[1]])
        ELSE IF candidates = <<>> THEN ResultNone
        ELSE ResultInProgress(candidates)

\* handle_next_key that keeps every candidate while the chord goes on.
handle_next_key_keeps_all(event, bindings, candidates, keys_pressed) ==
    LET Matches(c) ==
            /\ keys_pressed < Len(bindings[c].keys)
            /\ event.keysym = bindings[c].keys[keys_pressed + 1].keysym
            /\ \/ bindings[c].keys[keys_pressed + 1].modifiers = <<>>
               \/ BitAnd(clean(event.state),
                         modifiers_to_mask(bindings[c].keys[keys_pressed + 1].modifiers))
                      = modifiers_to_mask(bindings[c].keys[keys_pressed + 1].modifiers)
        matching == SelectSeq(candidates, Matches)
        complete == SelectSeq(matching, LAMBDA c : keys_pressed + 1 = Len(bindings[c].keys))
    IN  IF complete # <<>> THEN ResultCompleted(bindings[complete[1]])
        ELSE IF matching = <<>> THEN ResultCancelled
        ELSE ResultInProgress(candidates)

handle_next_key(event, bindings, candidates, keys_pressed) ==
    LET clean_state == clean(event.state)
        Matches(c) ==
            /\ keys_pressed < Len(bindings[c].keys)
            /\ LET next_key == bindings[c].keys[keys_pressed + 1]
                   required_mask == modifiers_to_mask(next_key.modifiers)
               IN  /\ event.keysym = next_key.keysym
                   /\ \/ next_key.modifiers = <<>>
                      \/ BitAnd(clean_state, required_mask) = required_mask
        matching == SelectSeq(candidates, Matches)
        complete == SelectSeq(matching, LAMBDA c : keys_pressed + 1 = Len(bindings[c].keys))
    IN  IF complete # <<>> THEN ResultCompleted(bindings[complete[1]])
        ELSE IF matching = <<>> THEN ResultCancelled
        ELSE ResultInProgress(matching)

\* handle_key_press without the test for Escape.
handle_key_press_no_cancel(event, bindings, state) ==
    IF state.kind = "Idle" THEN handle_first_key(event, bindings)
    ELSE handle_next_key(event, bindings, state.candidates, state.keys_pressed)

handle_key_press(event, bindings, state) ==
    IF event.keysym = "Escape"
    THEN IF state.kind = "InProgress" THEN ResultCancelled ELSE ResultNone
    ELSE IF state.kind = "Idle" THEN handle_first_key(event, bindings)
    ELSE handle_next_key(event, bindings, state.candidates, state.keys_pressed)

KeySyms == {"a", "b", "Escape"}
KeyStates == {BitOr(m, i) : m \in {0, MOD4}, i \in {0, LOCK, M2, BitOr(LOCK, M2)}}

AllKeyEvents == [keysym : KeySyms, state : KeyStates]

\* The key presses the display server delivers: what grab_keys grabbed for
\* the chord position current_key.
grab_keys(bindings, position) ==
    {[keysym |-> b.keys[position + 1].keysym,
      state |-> BitOr(modifiers_to_mask(b.keys[position + 1].modifiers), ignore_mask)] :
         b \in {bindings[i] : i \in {j \in 1..Len(bindings) : position < Len(bindings[j].keys)}},
         ignore_mask \in {0, LOCK, M2, BitOr(LOCK, M2)}}
    \cup (IF position > 0
          THEN {[keysym |-> "Escape", state |-> st] : st \in KeyStates}
          ELSE {})

(***************************************************************************)
(* The control loop: one action per event that run() hands to              *)
(* handle_event.  A handler that returns Err makes run() return.           *)
(***************************************************************************)
RECURSIVE SortedSeq(_)
SortedSeq(S) ==
    IF S = {} THEN <<>>
    ELSE LET m == CHOOSE x \in S : \A y \in S : x <= y
         IN  <<m>> \o SortedSeq(S \ {m})

\* Windows that may already be viewable when the window manager starts.
PreExisting == {MaxWindows}

\* The defaults of the configuration, and both policies switched on.
Configs == {[tag_back_and_forth |-> b, auto_tile |-> b] : b \in BOOLEAN}

\* WindowManager::new: scan_existing_windows pushes every window that is
\* already viewable onto `windows`; no client is created for it.
InitCore ==
    /\ clients = <<>>
    /\ monitors = [i \in MonitorIds |-> NewMonitor]
    /\ selected_monitor = 0
    /\ floating_windows = {}
    /\ fullscreen_windows = {}
    /\ layout = "tiling"
    /\ run_result = "pending"
    /\ events_handled = 0

InitKeys ==
    /\ keychord_state = Idle
    /\ current_key = 0
    /\ key_result = ResultNone

NoGaps == [inner_horizontal |-> 0, inner_vertical |-> 0,
           outer_horizontal |-> 0, outer_vertical |-> 0]

\* Monitor::new and the default configuration on a 1000x600 usable area.
DefaultLayoutArgs ==
    [screen_width |-> 1000, usable_height |-> 600, gaps |-> NoGaps,
     master_factor |-> MasterFactor055, num_master |-> 1, smartgaps_enabled |-> TRUE]

NoCall == [windows |-> <<>>, screen_width |-> 0, screen_height |-> 0, gaps |-> NoGaps,
           master_factor |-> MasterFactor055, num_master |-> 1,
           smartgaps_enabled |-> TRUE]

NothingLaidOut == [mi \in MonitorIds |-> [visible |-> <<>>, geometries |-> <<>>]]

InitTiles ==
    /\ arrange_call = NoCall
    /\ layout_args = DefaultLayoutArgs
    /\ arrange_result = <<>>
    /\ laid_out = NothingLaidOut

\* No geometry is kept and no direct call has been made.
NoHintCall == [window |-> None, x |-> 0, y |-> 0, w |-> 0, h |-> 0]

NoHintResult == [x |-> 0, y |-> 0, w |-> 0, h |-> 0, changed |-> FALSE]

NoGeometry == NewGeometry([x |-> 0, y |-> 0, width |-> 0, height |-> 0, border_width |-> 0], 0)

\* The history of the last fullscreen entry: nothing, or the client as it was
\* when its window entered, and whether the exit has followed at once.
Untracked == [phase |-> "none", window |-> None, is_floating |-> FALSE, before |-> NoGeometry]

InitGeometry ==
    /\ geometry = <<>>
    /\ wm_normal_hints = [w \in Windows |-> NoProperty]
    /\ hint_call = NoHintCall
    /\ hint_result = NoHintResult
    /\ round_trip = Untracked

\* WindowManager::new: no error message, the overlay hidden, nothing restacked;
\* the display server holds no property of a window.
NoMessage == "None"

HiddenOverlay == [is_visible |-> FALSE, lines |-> NoMessage, x |-> 0, y |-> 0]

NoReload ==
    [outcome |-> "none", config |-> [path |-> "None"], keybindings |-> <<>>,
     gaps_enabled |-> FALSE, error |-> NoMessage]

NotRestacked == <<>>

\* The main loop runs: no nested loop, no pointer grab.
NoDrag ==
    [phase |-> "Main", op |-> "none", window |-> 0, pointer_grabbed |-> FALSE,
     last_time |-> as_u32(0), new_monitor |-> 0, was_floating |-> FALSE, monitor_idx |-> 0,
     seen |-> "none"]

\* grab_keys has not run.
NotGrabbed == {}

\* No event has been handled yet.
NoEvent == [kind |-> "None", window |-> 0, was_managed |-> FALSE, was_visible |-> FALSE]

\* A window the display server does not have as a child of the root.
NoWindow ==
    [map_state |-> "none", override_redirect |-> FALSE, has_wm_state |-> FALSE,
     has_wm_class |-> FALSE]

NoServerWindows == [attrs |-> [w \in Windows |-> NoWindow], scanned |-> FALSE]

InitExtra ==
    /\ gaps_enabled = FALSE
    /\ error_message = NoMessage
    /\ overlay = HiddenOverlay
    /\ reload = NoReload
    /\ net_client_info = [w \in Windows |-> <<>>]
    /\ server_windows = NoServerWindows
    /\ z_order = NotRestacked
    /\ last_event = NoEvent
    /\ grabbed = NotGrabbed
    /\ drag = NoDrag

Init ==
    /\ InitCore
    /\ \E pre \in SUBSET PreExisting : windows = SortedSeq(pre)
    /\ config \in Configs
    /\ keybindings = <<>>
    /\ InitKeys
    /\ InitGeometry
    /\ InitExtra
    /\ InitTiles

Dispatch(s) ==
    /\ Becomes(s)
    /\ run_result' = "pending"
    /\ events_handled' = events_handled + 1
    /\ UNCHANGED <<keyvars, tilevars, geomvars, extravars>>

CanHandle == run_result = "pending" /\ events_handled < MaxEvents

RuleResults ==
    {NoRule}
    \cup {[NoRule EXCEPT !.rule_tags = tag_mask(i), !.rule_focus = f] :
              i \in TagIndices, f \in BOOLEAN}
    \cup {[NoRule EXCEPT !.rule_monitor = m] : m \in MonitorIds}
    \cup {[NoRule EXCEPT !.rule_floating = "yes"]}

ManageInputs ==
    {[PlainWindow EXCEPT !.rule = r] : r \in RuleResults}
    \cup {[PlainWindow EXCEPT !.parent = p] : p \in Windows}
    \cup {[PlainWindow EXCEPT !.dialog = TRUE],
          [PlainWindow EXCEPT !.fixed = TRUE],
          [PlainWindow EXCEPT !.fullscreen = TRUE]}

MapRequest(w, in) ==
    /\ CanHandle
    /\ ~Contains(windows, w)
    /\ in.parent # w
    /\ Dispatch(manage_window(Snapshot, w, in))

UnmapNotify(w) ==
    /\ CanHandle
    /\ Contains(windows, w) /\ is_window_visible(Snapshot, w)
    /\ Dispatch(remove_window(Snapshot, w))

DestroyNotify(w) ==
    /\ CanHandle
    /\ Contains(windows, w)
    /\ Dispatch(remove_window(Snapshot, w))

EnterNotify(w) ==
    /\ CanHandle
    /\ Contains(windows, w)
    /\ LET s == Snapshot
           s1 == IF w \in DOMAIN s.clients
                    /\ s.clients[w].monitor_index # s.selected_monitor
                 THEN [s EXCEPT !.selected_monitor = s.clients[w].monitor_index]
                 ELSE s
       IN  Dispatch(focus(s1, w))

MotionNotify(m) ==
    /\ CanHandle
    /\ m # selected_monitor
    /\ Dispatch(focus([Snapshot EXCEPT !.selected_monitor = m], None))

ButtonPress(w) ==
    /\ CanHandle
    /\ Dispatch(restack(focus(Snapshot, w)))

ButtonPressDrag(w, new_monitor, target) ==
    /\ CanHandle
    /\ LET s1 == restack(focus(Snapshot, w))
       IN  /\ w \in DOMAIN s1.clients
           /\ Dispatch(drag_window(s1, w, new_monitor, target))

BarClick(m, tag_index) ==
    /\ CanHandle
    /\ Dispatch(view_tag([Snapshot EXCEPT !.selected_monitor = m], tag_index))

TagArgs == 0..NumTags
Directions == {-1, 1}

KeyViewTag(i) == CanHandle /\ Dispatch(view_tag(Snapshot, i))
KeyToggleView(i) == CanHandle /\ Dispatch(toggleview(Snapshot, i))
KeyMoveToTag(i) == CanHandle /\ Dispatch(move_to_tag(Snapshot, i))
KeyToggleTag(i) == CanHandle /\ Dispatch(toggletag(Snapshot, i))
KeyFocusStack(d) == CanHandle /\ Dispatch(restack(focusstack(Snapshot, d)))
KeyMoveStack(d) == CanHandle /\ Dispatch(restack(move_stack(Snapshot, d)))
KeyFocusMonitor(d) == CanHandle /\ Dispatch(focus_monitor(Snapshot, d))
KeyTagMonitor(d) == CanHandle /\ Dispatch(send_window_to_adjacent_monitor(Snapshot, d))
KeyToggleFloating == CanHandle /\ Dispatch(restack(toggle_floating(Snapshot)))
KeyToggleFullScreen == CanHandle /\ Dispatch(restack(fullscreen(Snapshot)))

LayoutArgs == {"tiling", "normie"}

\* LayoutType::next on the names of the layouts.
next_layout(current_name) ==
    CASE current_name = "tiling" -> "normie"
      [] current_name = "normie" -> "grid"
      [] current_name = "grid" -> "monocle"
      [] current_name = "monocle" -> "tabbed"
      [] current_name = "tabbed" -> "scrolling"
      [] OTHER -> "tiling"

\* KeyAction::CycleLayout.
cycle_layout_action(s) ==
    restack(apply_layout(
        IF next_layout(s.layout) # "normie"
        THEN [s EXCEPT !.layout = next_layout(s.layout), !.floating_windows = {}]
        ELSE [s EXCEPT !.layout = next_layout(s.layout)]))

change_layout_action(s, layout_name) ==
    LET s1 == [s EXCEPT !.layout = IF layout_name = "floating" THEN "normie" ELSE layout_name]
        s2 == IF layout_name # "normie" /\ layout_name # "floating"
              THEN [s1 EXCEPT !.floating_windows = {}]
              ELSE s1
    IN  restack(apply_layout(s2))

KeyChangeLayout(name) == CanHandle /\ Dispatch(change_layout_action(Snapshot, name))

ClientMessageFullscreen(w, action) ==
    /\ CanHandle
    /\ w \in DOMAIN clients
    /\ LET fs == IF action = 1 THEN TRUE
                 ELSE IF action = 0 THEN FALSE
                 ELSE ~(w \in fullscreen_windows)
       IN  Dispatch(restack(set_window_fullscreen(Snapshot, w, fs)))

Returns(result) ==
    /\ run_result' = result
    /\ events_handled' = events_handled + 1
    /\ UNCHANGED <<clients, monitors, selected_monitor, windows, floating_windows,
                   fullscreen_windows, layout, config>>
    /\ UNCHANGED <<keyvars, tilevars, geomvars, extravars>>

\* handle_event returns Control::Quit and run() returns Ok(()).
KeyQuit == CanHandle /\ Returns("Ok")

\* The geometry query that opens manage_window fails (the window is already
\* gone): `?` hands the error to handle_event, to run() and to main.
MapRequestGeometryFails(w) ==
    /\ CanHandle
    /\ ~Contains(windows, w)
    /\ Returns("Err")

Next ==
    \/ \E w \in Windows, in \in ManageInputs : MapRequest(w, in)
    \/ \E w \in Windows : UnmapNotify(w)
    \/ \E w \in Windows : DestroyNotify(w)
    \/ \E w \in Windows : EnterNotify(w)
    \/ \E m \in MonitorIds : MotionNotify(m)
    \/ \E w \in Windows : ButtonPress(w)
    \/ \E w \in Windows, m \in MonitorIds, target \in Windows \cup {None} :
           ButtonPressDrag(w, m, target)
    \/ \E m \in MonitorIds, i \in TagIndices : BarClick(m, i)
    \/ \E i \in TagArgs : KeyViewTag(i)
    \/ \E i \in TagArgs : KeyToggleView(i)
    \/ \E i \in TagArgs : KeyMoveToTag(i)
    \/ \E i \in TagArgs : KeyToggleTag(i)
    \/ \E d \in Directions : KeyFocusStack(d)
    \/ \E d \in Directions : KeyMoveStack(d)
    \/ \E d \in Directions : KeyFocusMonitor(d)
    \/ \E d \in Directions : KeyTagMonitor(d)
    \/ KeyToggleFloating
    \/ KeyToggleFullScreen
    \/ \E name \in LayoutArgs : KeyChangeLayout(name)
    \/ \E w \in Windows, action \in 0..2 : ClientMessageFullscreen(w, action)
    \/ KeyQuit
    \/ \E w \in Windows : MapRequestGeometryFails(w)

Spec == Init /\ [][Next]_vars

(***************************************************************************)
(* Key presses resolved against the configured chords.                     *)
(***************************************************************************)
handle_key_action(s, action, arg) ==
    CASE action = "ToggleFullScreen" -> restack(fullscreen(s))
      [] action = "ChangeLayout" -> change_layout_action(s, arg)
      [] action = "ToggleFloating" -> restack(toggle_floating(s))
      [] action = "FocusStack" -> restack(focusstack(s, arg))
      [] action = "MoveStack" -> restack(move_stack(s, arg))
      [] action = "ViewTag" -> view_tag(s, arg)
      [] action = "ToggleView" -> toggleview(s, arg)
      [] action = "MoveToTag" -> move_to_tag(s, arg)
      [] action = "ToggleTag" -> toggletag(s, arg)
      [] action = "FocusMonitor" -> focus_monitor(s, arg)
      [] action = "TagMonitor" -> send_window_to_adjacent_monitor(s, arg)
      [] OTHER -> s

Key(modifiers, keysym) == [modifiers |-> modifiers, keysym |-> keysym]

BindingPool ==
    {[keys |-> <<Key(<<MOD4>>, "a")>>, func |-> "ViewTag", arg |-> 1],
     [keys |-> <<Key(<<MOD4>>, "a"), Key(<<>>, "b")>>, func |-> "ToggleView", arg |-> 1],
     [keys |-> <<Key(<<MOD4>>, "b"), Key(<<MOD4>>, "a"), Key(<<>>, "b")>>,
      func |-> "FocusMonitor", arg |-> 1],
     [keys |-> <<Key(<<MOD4>>, "b"), Key(<<>>, "a")>>, func |-> "Quit", arg |-> 0]}

MaxBindings == 3

\* Every configuration of at most MaxBindings distinct bindings, in any order.
KeybindingConfigs ==
    {kb \in UNION {[1..n -> BindingPool] : n \in 1..MaxBindings} :
         \A i, j \in 1..Len(kb) : kb[i] = kb[j] => i = j}

InitKey ==
    /\ InitCore
    /\ windows = <<>>
    /\ config = [tag_back_and_forth |-> FALSE, auto_tile |-> FALSE]
    /\ keybindings \in KeybindingConfigs
    /\ InitKeys
    /\ InitGeometry
    /\ InitExtra
    /\ InitTiles

\* The KeyPress arm of handle_event on the state of the window manager and
\* of the keychord machine.
KeyPressHandled(event) ==
    /\ CanHandle
    /\ event \in grab_keys(keybindings, current_key)
    /\ LET result == handle_key_press(event, keybindings, keychord_state)
       IN  /\ key_result' = result
           /\ events_handled' = events_handled + 1
           /\ UNCHANGED <<keybindings, tilevars, geomvars>>
           /\ IF result.kind = "Completed"
              THEN /\ keychord_state' = Idle
                   /\ current_key' = 0
                   /\ IF result.func = "Quit"
                      THEN /\ run_result' = "Ok"
                           /\ Becomes(Snapshot)
                      ELSE /\ run_result' = "pending"
                           /\ Becomes(handle_key_action(Snapshot, result.func, result.arg))
              ELSE /\ run_result' = "pending"
                   /\ Becomes(Snapshot)
                   /\ IF result.kind = "InProgress"
                      THEN /\ current_key' = current_key + 1
                           /\ keychord_state' = InProgress(result.candidates, current_key + 1)
                      ELSE /\ keychord_state' = Idle
                           /\ current_key' = 0

KeyPress(event) == KeyPressHandled(event) /\ UNCHANGED extravars

NextKey == \E keysym \in KeySyms, state \in KeyStates :
               KeyPress([keysym |-> keysym, state |-> state])

SpecKey == InitKey /\ [][NextKey]_vars


(***************************************************************************)
(* TilingLayout::arrange called on its own.                                *)
(***************************************************************************)
MaxTiled == 4
MaxMaster == 4

GapChoices ==
    {[inner_horizontal |-> ih, inner_vertical |-> v,
      outer_horizontal |-> oh, outer_vertical |-> v] :
         ih \in {0, 3}, oh \in {0, 3}, v \in {0, 5}}

ArrangeCalls ==
    [windows : {[i \in 1..n |-> i] : n \in 0..MaxTiled},
     screen_width : {1000},
     screen_height : {10, 600, 601, 602, 603},
     gaps : GapChoices,
     master_factor : {2 ^ 23, MasterFactor055},
     num_master : -1..MaxMaster,
     smartgaps_enabled : BOOLEAN]

InitTile ==
    /\ InitCore
    /\ windows = <<>>
    /\ config = [tag_back_and_forth |-> FALSE, auto_tile |-> FALSE]
    /\ keybindings = <<>>
    /\ InitKeys
    /\ InitGeometry
    /\ InitExtra
    /\ arrange_call \in ArrangeCalls
    /\ layout_args = DefaultLayoutArgs
    /\ arrange_result = <<>>
    /\ laid_out = NothingLaidOut

ArrangeCall ==
    /\ events_handled = 0
    /\ arrange_result' = arrange(arrange_call.windows, arrange_call.screen_width,
                                 arrange_call.screen_height, arrange_call.gaps,
                                 arrange_call.master_factor, arrange_call.num_master,
                                 arrange_call.smartgaps_enabled)
    /\ events_handled' = 1
    /\ UNCHANGED <<clients, monitors, selected_monitor, windows, floating_windows,
                   fullscreen_windows, layout, config, run_result>>
    /\ UNCHANGED <<keyvars, arrange_call, layout_args, laid_out, geomvars, extravars>>

NextTile == ArrangeCall

SpecTile == InitTile /\ [][NextTile]_vars

(***************************************************************************)
(* Windows opened and closed under the tiling layout, with what            *)
(* apply_layout computes for every monitor.                                *)
(***************************************************************************)
OpenArgs ==
    [screen_width : {1000, 1001},
     usable_height : {600, 601},
     gaps : {NoGaps, [inner_horizontal |-> 3, inner_vertical |-> 3,
                      outer_horizontal |-> 3, outer_vertical |-> 3]},
     master_factor : {MasterFactor055},
     num_master : {1, 2},
     smartgaps_enabled : {TRUE}]

InitOpen ==
    /\ InitCore
    /\ windows = <<>>
    /\ config = [tag_back_and_forth |-> FALSE, auto_tile |-> FALSE]
    /\ keybindings = <<>>
    /\ InitKeys
    /\ InitGeometry
    /\ InitExtra
    /\ arrange_call = NoCall
    /\ layout_args \in OpenArgs
    /\ arrange_result = <<>>
    /\ laid_out = NothingLaidOut

DispatchLaidOut(s) ==
    /\ Becomes(s)
    /\ run_result' = "pending"
    /\ events_handled' = events_handled + 1
    /\ laid_out' = IF s.layout = "normie" THEN laid_out
                   ELSE [mi \in MonitorIds |-> layout_monitor(s, mi, layout_args)]
    /\ UNCHANGED <<keyvars, arrange_call, layout_args, arrange_result, geomvars, extravars>>

MapRequestLaidOut(w) ==
    /\ CanHandle
    /\ ~Contains(windows, w)
    /\ DispatchLaidOut(manage_window(Snapshot, w, PlainWindow))

DestroyNotifyLaidOut(w) ==
    /\ CanHandle
    /\ Contains(windows, w)
    /\ DispatchLaidOut(remove_window(Snapshot, w))

NextOpen ==
    \/ \E w \in Windows : MapRequestLaidOut(w)
    \/ \E w \in Windows : DestroyNotifyLaidOut(w)

SpecOpen == InitOpen /\ [][NextOpen]_vars

(***************************************************************************)
(* Windows with size hints, and apply_size_hints called on its own.        *)
(***************************************************************************)
\* How many windows are opened before apply_size_hints is called.
MaxHinted == 1

HintFlagSets ==
    {{}, {"P_MIN_SIZE"}, {"P_BASE_SIZE"}, {"P_MIN_SIZE", "P_RESIZE_INC"},
     {"P_MIN_SIZE", "P_MAX_SIZE", "P_RESIZE_INC"},
     {"P_BASE_SIZE", "P_MIN_SIZE", "P_RESIZE_INC"},
     {"P_BASE_SIZE", "P_MIN_SIZE", "P_MAX_SIZE", "P_RESIZE_INC"},
     {"P_MIN_SIZE", "P_ASPECT"}, {"P_ASPECT"}}

\* The values a client may have written into the 18 words of WM_NORMAL_HINTS.
HintValues ==
    {[words |-> 18, min_width |-> 200, min_height |-> 100,
      max_width |-> 400, max_height |-> 300, width_inc |-> 10, height_inc |-> 10,
      base_width |-> 200, base_height |-> 100,
      min_aspect_x |-> 2, min_aspect_y |-> 1, max_aspect_x |-> 2, max_aspect_y |-> 1],
     [words |-> 18, min_width |-> 30, min_height |-> 10,
      max_width |-> 405, max_height |-> 95, width_inc |-> 10, height_inc |-> 7,
      base_width |-> 50, base_height |-> 4,
      min_aspect_x |-> 1, min_aspect_y |-> 2, max_aspect_x |-> 1, max_aspect_y |-> 0],
     [words |-> 18, min_width |-> 10, min_height |-> 10,
      max_width |-> 10, max_height |-> 10, width_inc |-> 10, height_inc |-> 0,
      base_width |-> 10, base_height |-> 40,
      min_aspect_x |-> 0, min_aspect_y |-> 0, max_aspect_x |-> 4, max_aspect_y |-> 1]}

HintProperties ==
    {NoProperty, [words |-> 9]}
    \cup {[f \in DOMAIN v \cup {"flags"} |-> IF f = "flags" THEN flags ELSE v[f]] :
              v \in HintValues, flags \in HintFlagSets}

HintedWindows ==
    {[PlainWindow EXCEPT !.rule = r] : r \in {NoRule, [NoRule EXCEPT !.rule_floating = "yes"]}}

RequestedSizes == {-3, 0, 15, 35, 95, 205, 207, 500}

RequestedPositions == {<<0, 0>>, <<1000, -200>>, <<-200, 600>>}

DispatchGeometry(s, trip) ==
    /\ Becomes(s)
    /\ geometry' = s.geometry
    /\ wm_normal_hints' = s.wm_normal_hints
    /\ round_trip' = trip
    /\ run_result' = "pending"
    /\ events_handled' = events_handled + 1
    /\ UNCHANGED <<keyvars, tilevars, hint_call, hint_result, extravars>>

\* A client writes WM_NORMAL_HINTS and asks for its window to be mapped.  The
\* windows are mapped before the direct call, so that the call is the last
\* thing that touched the client it was made for.
MapRequestHinted(w, in, property) ==
    /\ CanHandle
    /\ hint_call = NoHintCall
    /\ Len(windows) < MaxHinted
    /\ ~Contains(windows, w)
    /\ DispatchGeometry(
           manage_window([GeometrySnapshot EXCEPT !.wm_normal_hints[w] = property], w, in),
           round_trip)

\* One direct call in a behaviour, on a client of the registry.
ApplySizeHints(window, x, y, w, h) ==
    /\ hint_call = NoHintCall
    /\ window \in DOMAIN clients
    /\ LET r == apply_size_hints(GeometrySnapshot, window, x, y, w, h)
       IN  /\ hint_call' = [window |-> window, x |-> x, y |-> y, w |-> w, h |-> h]
           /\ hint_result' = [x |-> r.x, y |-> r.y, w |-> r.w, h |-> r.h,
                              changed |-> r.changed]
           /\ Becomes(r.state)
           /\ geometry' = r.state.geometry
    /\ UNCHANGED <<run_result, events_handled, keyvars, tilevars, wm_normal_hints,
                   round_trip, extravars>>

NextHints ==
    \/ \E w \in Windows, in \in HintedWindows, property \in HintProperties :
           MapRequestHinted(w, in, property)
    \/ \E window \in Windows, at \in RequestedPositions, w, h \in RequestedSizes :
           ApplySizeHints(window, at[1], at[2], w, h)

InitHints ==
    /\ InitCore
    /\ windows = <<>>
    /\ config = [tag_back_and_forth |-> FALSE, auto_tile |-> FALSE]
    /\ keybindings = <<>>
    /\ InitKeys
    /\ InitGeometry
    /\ InitExtra
    /\ InitTiles

SpecHints == InitHints /\ [][NextHints]_vars

(***************************************************************************)
(* Windows with a geometry: opened, reconfigured by their clients, moved   *)
(* in and out of fullscreen, each followed by the relayout of its handler. *)
(***************************************************************************)
\* How many windows are open at once where geometry is kept.
MaxPlaced == 2

PlacedWindows == 1..MaxPlaced

GeometryReplies ==
    {[x |-> 0, y |-> 0, width |-> 100, height |-> 100, border_width |-> 0],
     [x |-> 900, y |-> 500, width |-> 250, height |-> 150, border_width |-> 1]}

PlacedInputs ==
    {[in EXCEPT !.geometry = reply] : in \in HintedWindows, reply \in GeometryReplies}

PlacedProperties ==
    {NoProperty}
    \cup {p \in HintProperties :
              p.words = 18 /\ p.flags = {"P_MIN_SIZE", "P_MAX_SIZE", "P_RESIZE_INC"}}

ConfigureEvents ==
    {[window |-> w, value_mask |-> mask, x |-> 40, y |-> 580, width |-> width,
      height |-> 60, border_width |-> 5] :
         w \in PlacedWindows, width \in {10, 207},
         mask \in {{"WIDTH"}, {"X", "Y", "WIDTH", "HEIGHT"}, {"BORDER_WIDTH"}}}

InitPlaced ==
    /\ InitCore
    /\ windows = <<>>
    /\ config = [tag_back_and_forth |-> FALSE, auto_tile |-> FALSE]
    /\ keybindings = <<>>
    /\ InitKeys
    /\ InitTiles
    /\ InitGeometry
    /\ InitExtra

MapRequestPlaced(w, in, property) ==
    /\ CanHandle
    /\ Len(windows) < MaxPlaced
    /\ ~Contains(windows, w)
    /\ DispatchGeometry(
           manage_window([GeometrySnapshot EXCEPT !.wm_normal_hints[w] = property], w, in),
           Untracked)

ConfigureRequest(event) ==
    /\ CanHandle
    /\ event.window \in DOMAIN clients
    /\ DispatchGeometry(configure_request(GeometrySnapshot, event), Untracked)

\* The client replaces WM_NORMAL_HINTS; the handler marks the hints stale.
PropertyNotifyNormalHints(w, property) ==
    /\ CanHandle
    /\ w \in DOMAIN clients
    /\ property # wm_normal_hints[w]
    /\ DispatchGeometry([GeometrySnapshot EXCEPT !.wm_normal_hints[w] = property,
                                                 !.geometry[w].hints_valid = FALSE],
                        Untracked)

ClientMessageFullscreenPlaced(w, action) ==
    /\ CanHandle
    /\ w \in DOMAIN clients
    /\ LET fs == IF action = 1 THEN TRUE
                 ELSE IF action = 0 THEN FALSE
                 ELSE ~(w \in fullscreen_windows)
           trip == IF fs /\ w \notin fullscreen_windows
                   THEN [phase |-> "entered", window |-> w,
                         is_floating |-> clients[w].is_floating, before |-> geometry[w]]
                   ELSE IF ~fs /\ w \in fullscreen_windows
                           /\ round_trip.phase = "entered" /\ round_trip.window = w
                   THEN [round_trip EXCEPT !.phase = "exited"]
                   ELSE Untracked
       IN  DispatchGeometry(restack(set_window_fullscreen(GeometrySnapshot, w, fs)), trip)

KeyViewTagPlaced(i) ==
    CanHandle /\ DispatchGeometry(view_tag(GeometrySnapshot, i), Untracked)

KeyToggleFloatingPlaced ==
    CanHandle /\ DispatchGeometry(restack(toggle_floating(GeometrySnapshot)), Untracked)

NextPlaced ==
    \/ \E w \in PlacedWindows, in \in PlacedInputs, property \in PlacedProperties :
           MapRequestPlaced(w, in, property)
    \/ \E event \in ConfigureEvents : ConfigureRequest(event)
    \/ \E w \in PlacedWindows, property \in PlacedProperties :
           PropertyNotifyNormalHints(w, property)
    \/ \E w \in PlacedWindows, action \in 0..2 : ClientMessageFullscreenPlaced(w, action)
    \/ \E i \in TagArgs : KeyViewTagPlaced(i)
    \/ KeyToggleFloatingPlaced

SpecPlaced == InitPlaced /\ [][NextPlaced]_vars


(***************************************************************************)
(* KeyAction::Restart: the configuration is read again from its file.  The *)
(* file is what the file system and the Lua interpreter make of it at the  *)
(* time of the key press; the text of an error is kept as the name of the  *)
(* error with the size the font gives its lines.                           *)
(***************************************************************************)
\* What parse_lua_config can return for the text of a file.
ParsedGapsOn ==
    [tag_back_and_forth |-> TRUE, auto_tile |-> FALSE, tags |-> <<"a", "b">>,
     gaps_enabled |-> TRUE, window_rules |-> <<"rule">>,
     keybindings |-> <<[keys |-> <<>>, func |-> "Restart", arg |-> 0]>>]

ParsedPlain ==
    [tag_back_and_forth |-> FALSE, auto_tile |-> FALSE, tags |-> <<"1", "2">>,
     gaps_enabled |-> FALSE, window_rules |-> <<>>, keybindings |-> <<>>]

\* The width of the widest line and the number of lines of an error text
\* once wrap_text has broken it; a word is never broken.
ShortText == [content_width |-> 300, line_count |-> 3]

ErrorSizes == {ShortText,
               [content_width |-> 1200, line_count |-> 3],
               [content_width |-> 300, line_count |-> 40]}

\* The errors of try_reload_config itself have a short text; the text of an
\* error of the Lua interpreter is whatever the file makes it raise.
error_size(error, size) == IF error = "LuaError" THEN size ELSE ShortText

ConfigFiles ==
    {[exists |-> FALSE, readable |-> FALSE, parses |-> FALSE, parsed |-> ParsedPlain],
     [exists |-> TRUE, readable |-> FALSE, parses |-> FALSE, parsed |-> ParsedPlain],
     [exists |-> TRUE, readable |-> TRUE, parses |-> FALSE, parsed |-> ParsedPlain]}
    \cup {[exists |-> TRUE, readable |-> TRUE, parses |-> TRUE, parsed |-> c] :
              c \in {ParsedGapsOn, ParsedPlain}}

\* self.config with the fields the policy reads and those a reload replaces.
RunningConfig(parsed, path) ==
    [tag_back_and_forth |-> parsed.tag_back_and_forth, auto_tile |-> parsed.auto_tile,
     tags |-> parsed.tags, gaps_enabled |-> parsed.gaps_enabled,
     window_rules |-> parsed.window_rules, path |-> path]

ReloadFailed(error) == [ok |-> FALSE, error |-> error]

try_reload_config(running, file) ==
    IF running.path = "None" THEN ReloadFailed("NoConfigPathSet")
    ELSE IF ~file.exists THEN ReloadFailed("NoConfigAtPath")
    ELSE IF ~file.readable THEN ReloadFailed("CouldNotReadConfig")
    ELSE IF ~file.parses THEN ReloadFailed("LuaError")
    ELSE [ok |-> TRUE, config |-> RunningConfig(file.parsed, running.path),
          keybindings |-> file.parsed.keybindings]

\* font.height() + LINE_SPACING and PADDING * 2 of overlay/error.rs.
LineHeight == 20

Padding2 == 40

\* ErrorOverlay::show_error works in u16: the size of the overlay, and
\* whether it is wider or taller than the screen, where the subtraction
\* that centres it goes below zero.
overlay_width(size) == as_u16(size.content_width + Padding2)

overlay_height(size) == as_u16(as_u16(size.line_count * LineHeight) + Padding2)

centring_underflows(size, screen_width, screen_height) ==
    overlay_width(size) > screen_width \/ overlay_height(size) > screen_height

\* The overlay after show_error(text): the lines are stored, the position is
\* computed in wrapping u16 and i16, and is_visible is set once the display
\* server has accepted the new geometry.
show_error(shown, text, size, monitor_x, monitor_y, screen_width, screen_height, accepted) ==
    [is_visible |-> shown.is_visible \/ accepted,
     lines |-> text,
     x |-> as_i16(monitor_x + as_i16(as_u16(screen_width - overlay_width(size)) \div 2)),
     y |-> as_i16(monitor_y + as_i16(as_u16(screen_height - overlay_height(size)) \div 2))]

\* ErrorOverlay::hide: nothing to do when hidden; the lines are cleared once
\* the display server has unmapped the window.
hide_overlay(shown, accepted) ==
    IF ~shown.is_visible THEN [shown EXCEPT !.lines = NoMessage]
    ELSE IF accepted THEN [shown EXCEPT !.is_visible = FALSE, !.lines = NoMessage]
    ELSE shown

\* The KeyPress arm for a chord that completes with KeyAction::Restart, when
\* the reload succeeds.
RestartReloaded(result, accepted) ==
    /\ config' = result.config
    /\ keybindings' = result.keybindings
    /\ gaps_enabled' = result.config.gaps_enabled
    /\ error_message' = NoMessage
    /\ overlay' = hide_overlay(overlay, accepted)
    /\ reload' = [outcome |-> "reloaded", config |-> config, keybindings |-> keybindings,
                  gaps_enabled |-> gaps_enabled, error |-> NoMessage]
    /\ run_result' = "pending"

\* The same when the reload fails.  In a build with overflow checks the
\* subtraction that goes below zero ends the process.
RestartFailed(error, size, accepted, overflow_checks) ==
    /\ UNCHANGED <<config, keybindings, gaps_enabled>>
    /\ error_message' = error
    /\ overlay' = show_error(overlay, error, size,
                             selected_monitor * layout_args.screen_width, 0,
                             layout_args.screen_width, layout_args.usable_height, accepted)
    /\ reload' = [outcome |-> "failed", config |-> config, keybindings |-> keybindings,
                  gaps_enabled |-> gaps_enabled, error |-> error]
    /\ run_result' =
           IF overflow_checks /\ centring_underflows(size, layout_args.screen_width,
                                                     layout_args.usable_height)
           THEN "panic" ELSE "pending"

RestartOutcome(result, size, accepted, overflow_checks) ==
    IF result.ok THEN RestartReloaded(result, accepted)
    ELSE RestartFailed(result.error, error_size(result.error, size), accepted,
                       overflow_checks)

KeyRestart(file, size, accepted, overflow_checks) ==
    /\ CanHandle
    /\ RestartOutcome(try_reload_config(config, file), size, accepted, overflow_checks)
    /\ keychord_state' = Idle
    /\ current_key' = 0
    /\ events_handled' = events_handled + 1
    /\ UNCHANGED <<clients, monitors, selected_monitor, windows, floating_windows,
                   fullscreen_windows, layout, key_result>>
    /\ UNCHANGED <<tilevars, geomvars, net_client_info, server_windows, z_order, last_event, grabbed, drag>>

\* A key press on the window of the error overlay hides it.
KeyPressOverlay(accepted) ==
    /\ CanHandle
    /\ overlay.is_visible
    /\ overlay' = hide_overlay(overlay, accepted)
    /\ reload' = NoReload
    /\ run_result' = "pending"
    /\ events_handled' = events_handled + 1
    /\ UNCHANGED <<clients, monitors, selected_monitor, windows, floating_windows,
                   fullscreen_windows, layout, config>>
    /\ UNCHANGED <<keyvars, tilevars, geomvars, gaps_enabled, error_message,
                   net_client_info, server_windows, z_order, last_event, grabbed, drag>>

ConfigPaths == {"None", "config.lua"}

InitReload ==
    /\ InitCore
    /\ windows = <<>>
    /\ \E parsed \in {ParsedGapsOn, ParsedPlain}, path \in ConfigPaths :
           /\ config = RunningConfig(parsed, path)
           /\ keybindings = parsed.keybindings
           /\ gaps_enabled = parsed.gaps_enabled
    /\ InitKeys
    /\ InitGeometry
    /\ InitTiles
    /\ error_message = NoMessage
    /\ overlay = HiddenOverlay
    /\ reload = NoReload
    /\ net_client_info = [w \in Windows |-> <<>>]
    /\ server_windows = NoServerWindows
    /\ z_order = NotRestacked
    /\ last_event = NoEvent
    /\ grabbed = NotGrabbed
    /\ drag = NoDrag

NextReload ==
    \/ \E file \in ConfigFiles, size \in ErrorSizes, accepted, overflow_checks \in BOOLEAN :
           KeyRestart(file, size, accepted, overflow_checks)
    \/ \E accepted \in BOOLEAN : KeyPressOverlay(accepted)

SpecReload == InitReload /\ [][NextReload]_vars

(***************************************************************************)
(* The tag property across a restart of the window manager.  The display   *)
(* server keeps the windows, their map state and their properties while    *)
(* the process that manages them ends and a new one starts.                *)
(***************************************************************************)
PropertySnapshot ==
    [clients |-> clients, monitors |-> monitors,
     selected_monitor |-> selected_monitor, windows |-> windows,
     floating_windows |-> floating_windows,
     fullscreen_windows |-> fullscreen_windows, layout |-> layout,
     config |-> config, net_client_info |-> net_client_info]

\* get_saved_tag: the mask of the property when it has four bytes and is a
\* mask of configured tags, otherwise the tags in view on the selected monitor.
get_saved_tag(s, window) ==
    IF /\ Len(s.net_client_info[window]) >= 4
       /\ from_ne_bytes(s.net_client_info[window]) # 0
       /\ from_ne_bytes(s.net_client_info[window]) < 2 ^ NumTags
    THEN from_ne_bytes(s.net_client_info[window])
    ELSE ActiveTags(s.monitors[s.selected_monitor])

\* The windows scan_existing_windows pushes, in the order of the tree: the
\* viewable ones, and the unmapped ones that carry WM_STATE and WM_CLASS.
\* The mask get_saved_tag returns for them is dropped.
scan_adopts(attr) ==
    /\ attr.map_state # "none"
    /\ ~attr.override_redirect
    /\ \/ attr.map_state = "viewable"
       \/ attr.map_state = "unmapped" /\ attr.has_wm_state /\ attr.has_wm_class

scanned_windows(attrs) == SortedSeq({w \in Windows : scan_adopts(attrs[w])})

scan_focus(s) == IF s.windows = <<>> THEN s ELSE focus(s, Head(s.windows))

scan_existing_windows(s, attrs) ==
    apply_layout(scan_focus([s EXCEPT !.windows = scanned_windows(attrs)]))

\* The windows as the display server has them after the scan: the adopted
\* ones that were unmapped have been mapped.
scanned_attrs(attrs) ==
    [w \in Windows |->
        IF scan_adopts(attrs[w]) THEN [attrs[w] EXCEPT !.map_state = "viewable"]
        ELSE attrs[w]]

\* WindowManager::new before the scan.
NewManager(running_config, properties) ==
    [clients |-> <<>>, monitors |-> [i \in MonitorIds |-> NewMonitor],
     selected_monitor |-> 0, windows |-> <<>>, floating_windows |-> {},
     fullscreen_windows |-> {}, layout |-> "tiling", config |-> running_config,
     net_client_info |-> properties]

DispatchProperties(s, attrs) ==
    /\ Becomes(s)
    /\ net_client_info' = s.net_client_info
    /\ server_windows' = [attrs |-> attrs, scanned |-> FALSE]
    /\ run_result' = "pending"
    /\ events_handled' = events_handled + 1
    /\ UNCHANGED <<keyvars, tilevars, geomvars, gaps_enabled, error_message, overlay,
                   reload, z_order, last_event, grabbed, drag>>

SavedInputs ==
    {PlainWindow}
    \cup {[PlainWindow EXCEPT !.rule = [NoRule EXCEPT !.rule_tags = tag_mask(i)]] :
              i \in TagIndices}

\* A client creates a window and asks for it to be mapped.
MapRequestSaved(w, in, has_wm_class) ==
    /\ CanHandle
    /\ ~Contains(windows, w)
    /\ server_windows.attrs[w].map_state # "viewable"
    /\ DispatchProperties(
           manage_window(PropertySnapshot, w, in),
           [server_windows.attrs EXCEPT ![w] =
               [map_state |-> "viewable", override_redirect |-> FALSE,
                has_wm_state |-> TRUE, has_wm_class |-> has_wm_class]])

KeyMoveToTagSaved(i) ==
    /\ CanHandle
    /\ DispatchProperties(move_to_tag(PropertySnapshot, i), server_windows.attrs)

KeyToggleTagSaved(i) ==
    /\ CanHandle
    /\ DispatchProperties(toggletag(PropertySnapshot, i), server_windows.attrs)

KeyViewTagSaved(i) ==
    /\ CanHandle
    /\ DispatchProperties(view_tag(PropertySnapshot, i), server_windows.attrs)

\* A client unmaps its window: remove_window leaves WM_STATE on it.
UnmapNotifySaved(w) ==
    /\ CanHandle
    /\ server_windows.attrs[w].map_state = "viewable"
    /\ DispatchProperties(
           IF Contains(windows, w) /\ is_window_visible(PropertySnapshot, w)
           THEN remove_window(PropertySnapshot, w) ELSE PropertySnapshot,
           [server_windows.attrs EXCEPT ![w].map_state = "unmapped"])

\* The process ends and a new one starts on the same display: the windows
\* and their properties are those the display server holds.
ManagerRestart ==
    /\ CanHandle
    /\ ~server_windows.scanned
    /\ Becomes(scan_existing_windows(NewManager(config, net_client_info),
                                     server_windows.attrs))
    /\ server_windows' = [attrs |-> scanned_attrs(server_windows.attrs), scanned |-> TRUE]
    /\ run_result' = "pending"
    /\ events_handled' = events_handled + 1
    /\ keychord_state' = Idle
    /\ current_key' = 0
    /\ UNCHANGED <<keybindings, key_result, tilevars, geomvars, gaps_enabled,
                   error_message, overlay, reload, net_client_info, z_order, last_event, grabbed, drag>>

NextRescan ==
    \/ \E w \in Windows, in \in SavedInputs, has_wm_class \in BOOLEAN :
           MapRequestSaved(w, in, has_wm_class)
    \/ \E i \in TagArgs : KeyMoveToTagSaved(i)
    \/ \E i \in TagArgs : KeyToggleTagSaved(i)
    \/ \E i \in TagArgs : KeyViewTagSaved(i)
    \/ \E w \in Windows : UnmapNotifySaved(w)
    \/ ManagerRestart

InitRescan ==
    /\ InitCore
    /\ windows = <<>>
    /\ config \in Configs
    /\ keybindings = <<>>
    /\ InitKeys
    /\ InitGeometry
    /\ InitExtra
    /\ InitTiles

SpecRescan == InitRescan /\ [][NextRescan]_vars

(***************************************************************************)
(* The order restack gives the windows of the selected monitor.  z_order   *)
(* is what the handler of the last event configured, topmost first, and is *)
(* empty when that handler did not restack.                                *)
(***************************************************************************)
StackingSnapshot ==
    [clients |-> clients, monitors |-> monitors,
     selected_monitor |-> selected_monitor, windows |-> windows,
     floating_windows |-> floating_windows,
     fullscreen_windows |-> fullscreen_windows, layout |-> layout,
     config |-> config, z_order |-> NotRestacked]

DispatchStacked(s) ==
    /\ Becomes(s)
    /\ z_order' = s.z_order
    /\ run_result' = "pending"
    /\ events_handled' = events_handled + 1
    /\ UNCHANGED <<keyvars, tilevars, geomvars, restartvars, last_event>>

StackedInputs ==
    {PlainWindow, [PlainWindow EXCEPT !.dialog = TRUE],
     [PlainWindow EXCEPT !.rule = [NoRule EXCEPT !.rule_floating = "yes"]]}

MapRequestStacked(w, in) ==
    /\ CanHandle
    /\ ~Contains(windows, w)
    /\ DispatchStacked(manage_window(StackingSnapshot, w, in))

ButtonPressStacked(w) ==
    /\ CanHandle
    /\ DispatchStacked(restack(focus(StackingSnapshot, w)))

KeyFocusStackStacked(d) ==
    CanHandle /\ DispatchStacked(restack(focusstack(StackingSnapshot, d)))

KeyToggleFloatingStacked ==
    CanHandle /\ DispatchStacked(restack(toggle_floating(StackingSnapshot)))

KeyChangeLayoutStacked(name) ==
    CanHandle /\ DispatchStacked(change_layout_action(StackingSnapshot, name))

KeyCycleLayoutStacked ==
    CanHandle /\ DispatchStacked(cycle_layout_action(StackingSnapshot))

NextStack ==
    \/ \E w \in Windows, in \in StackedInputs : MapRequestStacked(w, in)
    \/ \E w \in Windows : ButtonPressStacked(w)
    \/ \E d \in Directions : KeyFocusStackStacked(d)
    \/ KeyToggleFloatingStacked
    \/ \E name \in LayoutArgs : KeyChangeLayoutStacked(name)
    \/ KeyCycleLayoutStacked

SpecStack == InitRescan /\ [][NextStack]_vars

(***************************************************************************)
(* UnmapNotify and DestroyNotify, each with everything its arm of          *)
(* handle_event does, also when it does nothing.  last_event keeps the     *)
(* event and what the window was when the event arrived.                   *)
(***************************************************************************)
unmap_notify(s, window) ==
    IF Contains(s.windows, window) /\ is_window_visible(s, window)
    THEN remove_window(s, window) ELSE s

destroy_notify(s, window) ==
    IF Contains(s.windows, window) THEN remove_window(s, window) ELSE s

EventMet(kind, w) ==
    [kind |-> kind, window |-> w,
     was_managed |-> w \in DOMAIN clients /\ Contains(windows, w),
     was_visible |-> is_window_visible(Snapshot, w)]

DispatchEvent(s, event) ==
    /\ Becomes(s)
    /\ last_event' = event
    /\ run_result' = "pending"
    /\ events_handled' = events_handled + 1
    /\ UNCHANGED <<keyvars, tilevars, geomvars, restartvars, z_order>>

MapRequestEvent(w, in) ==
    /\ CanHandle
    /\ ~Contains(windows, w)
    /\ DispatchEvent(manage_window(Snapshot, w, in), EventMet("MapRequest", w))

KeyViewTagEvent(i) ==
    CanHandle /\ DispatchEvent(view_tag(Snapshot, i), EventMet("ViewTag", None))

KeyMoveToTagEvent(i) ==
    CanHandle /\ DispatchEvent(move_to_tag(Snapshot, i), EventMet("KeyPress", None))

KeyFocusMonitorEvent(d) ==
    CanHandle /\ DispatchEvent(focus_monitor(Snapshot, d), EventMet("KeyPress", None))

UnmapNotifyEvent(w) ==
    CanHandle /\ DispatchEvent(unmap_notify(Snapshot, w), EventMet("UnmapNotify", w))

DestroyNotifyEvent(w) ==
    CanHandle /\ DispatchEvent(destroy_notify(Snapshot, w), EventMet("DestroyNotify", w))

NextUnmap ==
    \/ \E w \in Windows, in \in StackedInputs : MapRequestEvent(w, in)
    \/ \E i \in TagArgs : KeyViewTagEvent(i)
    \/ \E i \in TagArgs : KeyMoveToTagEvent(i)
    \/ \E d \in Directions : KeyFocusMonitorEvent(d)
    \/ \E w \in Windows : UnmapNotifyEvent(w)
    \/ \E w \in Windows : DestroyNotifyEvent(w)

SpecUnmap == InitRescan /\ [][NextUnmap]_vars

(***************************************************************************)
(* Focus and urgency: the events that move the focus or ask for it.        *)
(***************************************************************************)
\* Event::ClientMessage with type _NET_ACTIVE_WINDOW.
net_active_window(s, window) ==
    IF window \notin DOMAIN s.clients THEN s
    ELSE IF /\ window # s.monitors[s.selected_monitor].selected_client
            /\ ~s.clients[window].is_urgent
         THEN set_urgent(s, window, TRUE)
         ELSE s

ClientMessageActiveWindow(w) ==
    CanHandle /\ DispatchEvent(net_active_window(Snapshot, w), EventMet("ClientMessage", w))

ButtonPressEvent(w) ==
    /\ CanHandle
    /\ w \in DOMAIN clients
    /\ DispatchEvent(restack(focus(Snapshot, w)), EventMet("ButtonPress", w))

KeyFocusStackEvent(d) ==
    CanHandle /\ DispatchEvent(restack(focusstack(Snapshot, d)), EventMet("KeyPress", None))

KeyToggleViewEvent(i) ==
    CanHandle /\ DispatchEvent(toggleview(Snapshot, i), EventMet("KeyPress", None))

\* Windows without a rule and windows a rule sends to a monitor.
FocusInputs ==
    {PlainWindow}
    \cup {[PlainWindow EXCEPT !.rule = [NoRule EXCEPT !.rule_monitor = m]] : m \in MonitorIds}

NextFocus ==
    \/ \E w \in Windows, in \in FocusInputs : MapRequestEvent(w, in)
    \/ \E i \in TagArgs : KeyViewTagEvent(i)
    \/ \E i \in TagArgs : KeyMoveToTagEvent(i)
    \/ \E i \in TagArgs : KeyToggleViewEvent(i)
    \/ \E d \in Directions : KeyFocusMonitorEvent(d)
    \/ \E d \in Directions : KeyFocusStackEvent(d)
    \/ \E w \in Windows : ButtonPressEvent(w)
    \/ \E w \in Windows : ClientMessageActiveWindow(w)
    \/ \E w \in Windows : UnmapNotifyEvent(w)
    \/ \E w \in Windows : DestroyNotifyEvent(w)

SpecFocus == InitRescan /\ [][NextFocus]_vars

(***************************************************************************)
(* The tag masks of the clients and the _NET_CLIENT_INFO properties that   *)
(* keep them, under every key action that changes a client's tags.         *)
(***************************************************************************)
KeyTagMonitorSaved(d) ==
    /\ CanHandle
    /\ DispatchProperties(send_window_to_adjacent_monitor(PropertySnapshot, d),
                          server_windows.attrs)

KeyFocusMonitorSaved(d) ==
    /\ CanHandle
    /\ DispatchProperties(focus_monitor(PropertySnapshot, d), server_windows.attrs)

NextTags ==
    \/ \E w \in Windows, in \in SavedInputs : MapRequestSaved(w, in, TRUE)
    \/ \E i \in TagArgs : KeyMoveToTagSaved(i)
    \/ \E i \in TagArgs : KeyToggleTagSaved(i)
    \/ \E i \in TagArgs : KeyViewTagSaved(i)
    \/ \E d \in Directions : KeyTagMonitorSaved(d)
    \/ \E d \in Directions : KeyFocusMonitorSaved(d)
    \/ \E w \in Windows : UnmapNotifySaved(w)

SpecTags == InitRescan /\ [][NextTags]_vars

(***************************************************************************)
(* The keychord machine with bindings on Escape, with two bindings on the  *)
(* same key and with chords of two and three keys.  last_event keeps the   *)
(* key pressed last, the state of the machine and of the window manager it *)
(* met.                                                                    *)
(***************************************************************************)
ChordPool ==
    {[keys |-> <<Key(<<MOD4>>, "a")>>, func |-> "ViewTag", arg |-> 1],
     [keys |-> <<Key(<<MOD4>>, "a")>>, func |-> "FocusMonitor", arg |-> 1],
     [keys |-> <<Key(<<MOD4>>, "a"), Key(<<>>, "b")>>, func |-> "ToggleView", arg |-> 1],
     [keys |-> <<Key(<<MOD4>>, "b"), Key(<<MOD4>>, "a"), Key(<<>>, "b")>>,
      func |-> "ViewTag", arg |-> 1],
     [keys |-> <<Key(<<MOD4>>, "Escape")>>, func |-> "ViewTag", arg |-> 1],
     [keys |-> <<Key(<<MOD4>>, "b"), Key(<<>>, "Escape")>>, func |-> "ViewTag", arg |-> 1]}

ChordConfigs ==
    {kb \in UNION {[1..n -> ChordPool] : n \in 1..MaxBindings} :
         \A i, j \in 1..Len(kb) : kb[i] = kb[j] => i = j}

KeyMet(event) ==
    [kind |-> "KeyPress", window |-> None, was_managed |-> FALSE, was_visible |-> FALSE,
     keysym |-> event.keysym, state |-> event.state, chord |-> keychord_state,
     before |-> Snapshot]

KeyPressChord(event) ==
    /\ KeyPressHandled(event)
    /\ last_event' = KeyMet(event)
    /\ UNCHANGED <<restartvars, z_order>>

InitChord ==
    /\ InitCore
    /\ windows = <<>>
    /\ config = [tag_back_and_forth |-> FALSE, auto_tile |-> FALSE]
    /\ keybindings \in ChordConfigs
    /\ InitKeys
    /\ InitGeometry
    /\ InitExtra
    /\ InitTiles

NextChord == \E keysym \in KeySyms, state \in KeyStates :
                 KeyPressChord([keysym |-> keysym, state |-> state])

SpecChord == InitChord /\ [][NextChord]_vars

(***************************************************************************)
(* The key grabs on the root.  run() grabs the keys of position 0 before   *)
(* the first event; the KeyPress arm grabs again once it has stored the    *)
(* new depth, and only then runs the action of a completed chord; a        *)
(* MappingNotify for the keyboard grabs again.  The display server         *)
(* delivers the presses of grabbed keys.                                   *)
(***************************************************************************)
RestartOnA ==
    <<[keys |-> <<Key(<<MOD4>>, "a")>>, func |-> "Restart", arg |-> 0],
      [keys |-> <<Key(<<MOD4>>, "b"), Key(<<>>, "a")>>, func |-> "ViewTag", arg |-> 1]>>

RestartOnB ==
    <<[keys |-> <<Key(<<MOD4>>, "b")>>, func |-> "Restart", arg |-> 0],
      [keys |-> <<Key(<<MOD4>>, "a"), Key(<<>>, "b")>>, func |-> "ViewTag", arg |-> 1]>>

RestartOnChord ==
    <<[keys |-> <<Key(<<MOD4>>, "a"), Key(<<>>, "a")>>, func |-> "Restart", arg |-> 0],
      [keys |-> <<Key(<<MOD4>>, "a"), Key(<<>>, "b")>>, func |-> "ToggleView", arg |-> 1]>>

GrabConfigs == {RestartOnA, RestartOnB, RestartOnChord}

\* What the file at config.path gives when Restart reads it.
GrabFiles ==
    {[exists |-> TRUE, readable |-> TRUE, parses |-> FALSE,
      parsed |-> [ParsedPlain EXCEPT !.keybindings = RestartOnA]]}
    \cup {[exists |-> TRUE, readable |-> TRUE, parses |-> TRUE,
           parsed |-> [ParsedPlain EXCEPT !.keybindings = kb]] : kb \in GrabConfigs}

\* The keybindings in force once the action of the result has run.
bindings_after(result, reloaded) ==
    IF result.kind = "Completed" /\ result.func = "Restart" /\ reloaded.ok
    THEN reloaded.keybindings ELSE keybindings

depth_after(result) == IF result.kind = "InProgress" THEN current_key + 1 ELSE 0

chord_after(result) ==
    IF result.kind = "InProgress"
    THEN InProgress(result.candidates, current_key + 1) ELSE Idle

acted(result) ==
    IF result.kind = "Completed"
    THEN handle_key_action(Snapshot, result.func, result.arg) ELSE Snapshot

GrabMet(event, result, reloaded) ==
    [kind |-> "KeyPress", window |-> None, was_managed |-> FALSE, was_visible |-> FALSE,
     keysym |-> event.keysym, state |-> event.state, chord |-> keychord_state,
     reloaded |-> result.kind = "Completed" /\ result.func = "Restart" /\ reloaded.ok]

KeyPressStored(event, result, reloaded) ==
    /\ key_result' = result
    /\ keychord_state' = chord_after(result)
    /\ current_key' = depth_after(result)
    /\ grabbed' = grab_keys(keybindings, depth_after(result))
    /\ keybindings' = bindings_after(result, reloaded)
    /\ Becomes(acted(result))
    /\ last_event' = GrabMet(event, result, reloaded)
    /\ run_result' = "pending"
    /\ events_handled' = events_handled + 1
    /\ UNCHANGED <<tilevars, geomvars, gaps_enabled, error_message, overlay, reload,
                   net_client_info, server_windows, z_order, drag>>

KeyPressGrabbed(event, file) ==
    /\ CanHandle
    /\ event \in grabbed
    /\ KeyPressStored(event, handle_key_press(event, keybindings, keychord_state),
                      try_reload_config(RunningConfig(ParsedPlain, "config.lua"), file))

MappingNotifyKeyboard ==
    /\ CanHandle
    /\ grabbed' = grab_keys(keybindings, current_key)
    /\ last_event' = [NoEvent EXCEPT !.kind = "MappingNotify"]
    /\ events_handled' = events_handled + 1
    /\ UNCHANGED <<clients, monitors, selected_monitor, windows, floating_windows,
                   fullscreen_windows, layout, config, run_result>>
    /\ UNCHANGED <<keyvars, tilevars, geomvars, gaps_enabled, error_message, overlay,
                   reload, net_client_info, server_windows, z_order, drag>>

InitGrab ==
    /\ InitCore
    /\ windows = <<>>
    /\ config = [tag_back_and_forth |-> FALSE, auto_tile |-> FALSE]
    /\ keybindings \in GrabConfigs
    /\ InitKeys
    /\ InitGeometry
    /\ InitTiles
    /\ gaps_enabled = FALSE
    /\ error_message = NoMessage
    /\ overlay = HiddenOverlay
    /\ reload = NoReload
    /\ net_client_info = [w \in Windows |-> <<>>]
    /\ server_windows = NoServerWindows
    /\ z_order = NotRestacked
    /\ last_event = NoEvent
    /\ grabbed = grab_keys(keybindings, 0)
    /\ drag = NoDrag

NextGrab ==
    \/ \E event \in AllKeyEvents, file \in GrabFiles : KeyPressGrabbed(event, file)
    \/ MappingNotifyKeyboard

SpecGrab == InitGrab /\ [][NextGrab]_vars

(***************************************************************************)
(* The nested event loops of drag_window and resize_window_with_mouse.     *)
(* Between grab_pointer and ungrab_pointer the function reads the events   *)
(* of the connection itself; the main loop does not run.  `new_monitor`    *)
(* is the monitor get_monitor_for_rect finds for the rectangle the last    *)
(* processed motion left the window with.                                  *)
(***************************************************************************)
\* u32::wrapping_sub on the two halves.
wrapping_sub(a, b) ==
    [hi |-> (a.hi - b.hi - (IF a.lo < b.lo THEN 1 ELSE 0)) % U16, lo |-> (a.lo - b.lo) % U16]

u32_le(u, k) == u.hi = 0 /\ u.lo <= k

MotionThrottle == 16

\* The server times of the events; the last one is 4294967290.
EventTimes == {as_u32(5), as_u32(30), as_u32(-6)}

\* An event the loop reads: only a MotionNotify is looked into.
LoopEvent(kind) == [kind |-> kind, time |-> as_u32(5), monitor |-> 0]

MotionEvents == [kind : {"MotionNotify"}, time : EventTimes, monitor : MonitorIds]

ReleaseEvent == LoopEvent("ButtonRelease")

\* One event of each arm of the match, and two of the last arm.
LoopEvents ==
    MotionEvents \cup {LoopEvent("MapRequest"), LoopEvent("ButtonPress"), LoopEvent("KeyPress")}

\* resize_window_with_mouse returns before the grab when the window is the
\* only tiled one and auto_tile is on.
resize_refused(s, window) ==
    /\ s.config.auto_tile
    /\ ~s.clients[window].is_floating
    /\ s.layout # "normie"
    /\ Len(VisibleTiled(s, s.clients[window].monitor_index)) <= 1

grab_pointer(s, window, op) ==
    [phase |-> "Loop", op |-> op, window |-> window, pointer_grabbed |-> TRUE,
     last_time |-> as_u32(0), new_monitor |-> s.clients[window].monitor_index,
     was_floating |-> s.clients[window].is_floating,
     monitor_idx |-> s.clients[window].monitor_index, seen |-> "none"]

\* The part of both functions up to the loop: the state and the loop entered.
drag_start(s, window, op) ==
    IF window \notin DOMAIN s.clients THEN [wm |-> s, drag |-> NoDrag]
    ELSE IF s.clients[window].is_fullscreen THEN [wm |-> s, drag |-> NoDrag]
    ELSE IF op = "resize" /\ resize_refused(s, window) THEN [wm |-> s, drag |-> NoDrag]
    ELSE [wm |-> drag_float(s, window), drag |-> grab_pointer(s, window, op)]

should_resize(s, d) ==
    s.layout = "normie" \/ (d.window \in DOMAIN s.clients /\ s.clients[d.window].is_floating)

\* MotionNotify in the loop: dropped within the throttle, else it moves or
\* resizes a window that floats by now.
drag_motion(s, d, event) ==
    IF u32_le(wrapping_sub(event.time, d.last_time), MotionThrottle) THEN [d EXCEPT !.seen = "MotionNotify"]
    ELSE [d EXCEPT !.seen = "MotionNotify", !.last_time = event.time,
                   !.new_monitor = IF should_resize(s, d) THEN event.monitor ELSE @]

drag_loop_keeps_grab(s, d, event) ==
    IF event.kind = "MotionNotify" THEN drag_motion(s, d, event)
    ELSE IF event.kind = "ButtonRelease"
         THEN [NoDrag EXCEPT !.seen = "ButtonRelease", !.op = d.op, !.window = d.window,
                             !.pointer_grabbed = TRUE]
    ELSE [d EXCEPT !.seen = event.kind]

\* One event read by the loop: what it does to the loop.
drag_loop(s, d, event) ==
    IF event.kind = "MotionNotify" THEN drag_motion(s, d, event)
    ELSE IF event.kind = "ButtonRelease"
         THEN [NoDrag EXCEPT !.seen = "ButtonRelease", !.op = d.op, !.window = d.window]
    ELSE [d EXCEPT !.seen = event.kind]

\* After the loop: the window goes to the monitor it was left on, and a
\* window that was tiled goes back into the tiling (only drag_window looks
\* for a drop target).
drag_end(s, d, target) ==
    IF d.window \notin DOMAIN s.clients THEN s
    ELSE drag_finish(drag_move(s, d.window, d.new_monitor, d.monitor_idx), d.window,
                     IF d.op = "move" THEN target ELSE None,
                     s.config.auto_tile /\ ~d.was_floating /\ s.layout # "normie")

DispatchDrag(started) ==
    /\ Becomes(started.wm)
    /\ drag' = started.drag
    /\ last_event' = EventMet("ButtonPress", started.drag.window)
    /\ run_result' = "pending"
    /\ events_handled' = events_handled + 1
    /\ z_order' = started.wm.z_order
    /\ UNCHANGED <<keyvars, tilevars, geomvars, gaps_enabled, error_message, overlay,
                   reload, net_client_info, server_windows, grabbed>>

\* ButtonPress with the modkey held on a client: button 1 moves, 3 resizes.
ButtonPressModkey(w, op) ==
    /\ CanHandle
    /\ drag.phase = "Main"
    /\ w \in DOMAIN clients
    /\ DispatchDrag(drag_start(restack(focus(StackingSnapshot, w)), w, op))

\* The loop reads an event other than the release of the button.
DragEvent(event) ==
    /\ drag.phase = "Loop"
    /\ drag' = drag_loop(Snapshot, drag, event)
    /\ UNCHANGED <<wmvars, keyvars, tilevars, geomvars, gaps_enabled, error_message,
                   overlay, reload, net_client_info, server_windows, z_order, grabbed,
                   last_event>>

\* The loop reads the release of the button and the function returns.
ReleaseRead == drag.phase = "Loop" /\ drag' = drag_loop(Snapshot, drag, ReleaseEvent)

DragRelease(target) ==
    /\ ReleaseRead
    /\ Becomes(drag_end(Snapshot, drag, target))
    /\ UNCHANGED <<run_result, events_handled, keyvars, tilevars, geomvars,
                   gaps_enabled, error_message, overlay, reload, net_client_info,
                   server_windows, z_order, grabbed, last_event>>

MainLoop(A) == drag.phase = "Main" /\ A

NextDrag ==
    \/ \E w \in Windows : MainLoop(MapRequestEvent(w, PlainWindow))
    \/ MainLoop(KeyToggleFloatingStacked)
    \/ \E name \in {"normie", "tiling"} : MainLoop(KeyChangeLayoutStacked(name))
    \/ \E w \in Windows, op \in {"move", "resize"} : ButtonPressModkey(w, op)
    \/ \E event \in LoopEvents : DragEvent(event)
    \/ \E target \in Windows \cup {None} : DragRelease(target)

\* Fairness: the button that started the drag is released at some time, and
\* the loop, which reads every event of the connection, reads the release.
SpecDrag == InitRescan /\ [][NextDrag]_vars /\ WF_drag(ReleaseRead)

(***************************************************************************)
(* The same calls of apply_size_hints under each kind of layout: the       *)
(* layout is changed between the mapping of the window and the call.       *)
(***************************************************************************)
HintLayouts == {"normie", "monocle", "scrolling"}

KeyChangeLayoutHinted(name) ==
    /\ CanHandle
    /\ hint_call = NoHintCall
    /\ layout = "tiling"
    /\ windows # <<>>
    /\ DispatchGeometry(change_layout_action(GeometrySnapshot, name), round_trip)

NextLayoutHints ==
    \/ \E w \in Windows, in \in HintedWindows, property \in HintProperties :
           MapRequestHinted(w, in, property)
    \/ \E name \in HintLayouts : KeyChangeLayoutHinted(name)
    \/ \E window \in Windows, at \in RequestedPositions, w, h \in RequestedSizes :
           ApplySizeHints(window, at[1], at[2], w, h)

SpecLayoutHints == InitHints /\ [][NextLayoutHints]_vars

(***************************************************************************)
(* The scrolling layout (layout/scrolling.rs), called directly.  The       *)
(* widths stay far below 2^31, so a u32 is kept as a number here.          *)
(***************************************************************************)
scrolling_getgaps(gaps, window_count, smartgaps_enabled) ==
    LET outer_enabled == IF smartgaps_enabled /\ window_count = 1 THEN 0 ELSE 1
    IN  [outer_horizontal |-> gaps.outer_horizontal * outer_enabled,
         outer_vertical |-> gaps.outer_vertical * outer_enabled,
         inner_vertical |-> gaps.inner_vertical]

scrolling_visible_count(num_master) == IF num_master > 0 THEN num_master ELSE 2

\* Every window gets the width of one of visible_count columns.
scrolling_window_width_fixed(window_count, visible_count, available_width, inner_vertical) ==
    saturating_sub(available_width,
                   IF visible_count > 1 THEN inner_vertical * (visible_count - 1) ELSE 0)
        \div visible_count

scrolling_window_width(window_count, visible_count, available_width, inner_vertical) ==
    IF window_count <= visible_count
    THEN saturating_sub(available_width,
                        IF window_count > 1 THEN inner_vertical * (window_count - 1) ELSE 0)
             \div window_count
    ELSE saturating_sub(available_width,
                        IF visible_count > 1
                        THEN inner_vertical * (Min(visible_count, window_count) - 1) ELSE 0)
             \div visible_count

RECURSIVE scrolling_place(_, _, _, _, _, _)
scrolling_place(count, x, y, width, height, step) ==
    IF count = 0 THEN <<>>
    ELSE <<[x_coordinate |-> x, y_coordinate |-> y, width |-> width, height |-> height]>>
         \o scrolling_place(count - 1, x + step, y, width, height, step)

scrolling_arrange(window_list, screen_width, screen_height, gaps, num_master, smartgaps_enabled) ==
    IF Len(window_list) = 0 THEN <<>>
    ELSE LET gap_values == scrolling_getgaps(gaps, Len(window_list), smartgaps_enabled)
             window_width ==
                 scrolling_window_width(
                     Len(window_list), scrolling_visible_count(num_master),
                     saturating_sub(screen_width, 2 * gap_values.outer_vertical),
                     gap_values.inner_vertical)
         IN  scrolling_place(Len(window_list), gap_values.outer_vertical,
                             gap_values.outer_horizontal, window_width,
                             saturating_sub(screen_height, 2 * gap_values.outer_horizontal),
                             window_width + gap_values.inner_vertical)

ScrollCalls ==
    [windows : {[i \in 1..n |-> i] : n \in 0..MaxTiled},
     screen_width : {1000, 1001, 1003},
     screen_height : {600},
     gaps : GapChoices,
     master_factor : {MasterFactor055},
     num_master : 0..MaxMaster,
     smartgaps_enabled : BOOLEAN]

InitScroll ==
    /\ InitCore
    /\ windows = <<>>
    /\ config = [tag_back_and_forth |-> FALSE, auto_tile |-> FALSE]
    /\ keybindings = <<>>
    /\ InitKeys
    /\ InitGeometry
    /\ InitExtra
    /\ arrange_call \in ScrollCalls
    /\ layout_args = DefaultLayoutArgs
    /\ arrange_result = <<>>
    /\ laid_out = NothingLaidOut

ScrollingArrangeCall ==
    /\ events_handled = 0
    /\ arrange_result' = scrolling_arrange(arrange_call.windows, arrange_call.screen_width,
                                           arrange_call.screen_height, arrange_call.gaps,
                                           arrange_call.num_master,
                                           arrange_call.smartgaps_enabled)
    /\ events_handled' = 1
    /\ UNCHANGED <<clients, monitors, selected_monitor, windows, floating_windows,
                   fullscreen_windows, layout, config, run_result>>
    /\ UNCHANGED <<keyvars, arrange_call, layout_args, laid_out, geomvars, extravars>>

NextScroll == ScrollingArrangeCall

SpecScroll == InitScroll /\ [][NextScroll]_vars

(***************************************************************************)
(* The tiling and the scrolling layout called directly on the same inputs, *)
(* with smart gaps on and off.                                             *)
(***************************************************************************)
GapCalls ==
    [windows : {[i \in 1..n |-> i] : n \in 0..MaxTiled},
     screen_width : {1000},
     screen_height : {600, 601},
     gaps : GapChoices \cup {[inner_horizontal |-> 2, inner_vertical |-> 4,
                              outer_horizontal |-> 6, outer_vertical |-> 8]},
     master_factor : {MasterFactor055},
     num_master : 0..MaxMaster,
     smartgaps_enabled : BOOLEAN]

InitGaps ==
    /\ InitCore
    /\ windows = <<>>
    /\ config = [tag_back_and_forth |-> FALSE, auto_tile |-> FALSE]
    /\ keybindings = <<>>
    /\ InitKeys
    /\ InitGeometry
    /\ InitExtra
    /\ arrange_call \in GapCalls
    /\ layout_args = DefaultLayoutArgs
    /\ arrange_result = <<>>
    /\ laid_out = NothingLaidOut

TilingArrangeGaps ==
    /\ events_handled = 0
    /\ layout' = "tiling"
    /\ arrange_result' = arrange(arrange_call.windows, arrange_call.screen_width,
                                 arrange_call.screen_height, arrange_call.gaps,
                                 arrange_call.master_factor, arrange_call.num_master,
                                 arrange_call.smartgaps_enabled)
    /\ events_handled' = 1
    /\ UNCHANGED <<clients, monitors, selected_monitor, windows, floating_windows,
                   fullscreen_windows, config, run_result>>
    /\ UNCHANGED <<keyvars, arrange_call, layout_args, laid_out, geomvars, extravars>>

ScrollingArrangeGaps ==
    /\ events_handled = 0
    /\ layout' = "scrolling"
    /\ arrange_result' = scrolling_arrange(arrange_call.windows, arrange_call.screen_width,
                                           arrange_call.screen_height, arrange_call.gaps,
                                           arrange_call.num_master,
                                           arrange_call.smartgaps_enabled)
    /\ events_handled' = 1
    /\ UNCHANGED <<clients, monitors, selected_monitor, windows, floating_windows,
                   fullscreen_windows, config, run_result>>
    /\ UNCHANGED <<keyvars, arrange_call, layout_args, laid_out, geomvars, extravars>>

NextGaps == TilingArrangeGaps \/ ScrollingArrangeGaps

SpecGaps == InitGaps /\ [][NextGaps]_vars

(***************************************************************************)
(* Windows that are created, unmapped and destroyed while a drag is going  *)
(* on: the event is read by whichever loop is running at the time.         *)
(***************************************************************************)
WindowEventKinds == {"MapRequest", "UnmapNotify", "DestroyNotify"}

\* The display server sends the event: a window that is not managed asks to
\* be mapped, a managed one is unmapped or destroyed.
Sent(kind, w) ==
    IF kind = "MapRequest" THEN ~Contains(windows, w)
    ELSE IF kind = "UnmapNotify" THEN Contains(windows, w) /\ is_window_visible(Snapshot, w)
    ELSE Contains(windows, w)

\* The nested loop reads the event.
DragReads(kind, w) ==
    /\ drag.phase = "Loop"
    /\ Sent(kind, w)
    /\ drag' = drag_loop(Snapshot, drag, LoopEvent(kind))
    /\ last_event' = EventMet(kind, w)
    /\ UNCHANGED <<wmvars, keyvars, tilevars, geomvars, gaps_enabled, error_message,
                   overlay, reload, net_client_info, server_windows, z_order, grabbed>>

NextLost ==
    \/ \E w \in Windows : MainLoop(MapRequestEvent(w, PlainWindow))
    \/ \E w \in Windows : MainLoop(UnmapNotifyEvent(w))
    \/ \E w \in Windows : MainLoop(DestroyNotifyEvent(w))
    \/ \E w \in Windows, op \in {"move", "resize"} : ButtonPressModkey(w, op)
    \/ \E kind \in WindowEventKinds, w \in Windows : DragReads(kind, w)
    \/ \E event \in MotionEvents : DragEvent(event)
    \/ \E target \in Windows \cup {None} : DragRelease(target)

SpecLost == InitRescan /\ [][NextLost]_vars

(***************************************************************************)
(* The saved pre-fullscreen state.  The operations of the placed windows   *)
(* together with the two pointer drags of the ButtonPress arm, each taken  *)
(* with its nested loop as one step: the loop ends on the monitor          *)
(* `new_monitor` and a move drops the window on `target`.                  *)
(***************************************************************************)
ButtonPressModkeyPlaced(w, op, new_monitor, target) ==
    /\ CanHandle
    /\ w \in DOMAIN clients
    /\ LET started == drag_start(restack(focus(GeometrySnapshot, w)), w, op)
       IN  DispatchGeometry(
               IF started.drag.phase = "Loop"
               THEN drag_end(started.wm, [started.drag EXCEPT !.new_monitor = new_monitor],
                             target)
               ELSE started.wm,
               Untracked)

NextSaved ==
    \/ \E w \in PlacedWindows, in \in PlacedInputs, property \in PlacedProperties :
           MapRequestPlaced(w, in, property)
    \/ \E event \in ConfigureEvents : ConfigureRequest(event)
    \/ \E w \in PlacedWindows, action \in 0..2 : ClientMessageFullscreenPlaced(w, action)
    \/ \E i \in TagArgs : KeyViewTagPlaced(i)
    \/ KeyToggleFloatingPlaced
    \/ \E w \in PlacedWindows, op \in {"move", "resize"}, new_monitor \in MonitorIds :
           ButtonPressModkeyPlaced(w, op, new_monitor, None)

SpecSaved == InitPlaced /\ [][NextSaved]_vars

(***************************************************************************)
(* move_stack on tiling lists of up to MaxWindows clients, some floating   *)
(* or on a tag that is not shown, with any client selected.  last_event    *)
(* keeps the state the key action started from.                            *)
(***************************************************************************)
MaxMoveEvents == 6

CanMove == run_result = "pending" /\ events_handled < MaxMoveEvents

MoveInputs ==
    {PlainWindow, [PlainWindow EXCEPT !.rule = [NoRule EXCEPT !.rule_floating = "yes"]]}

MapRequestMove(w, in) ==
    /\ CanMove
    /\ ~Contains(windows, w)
    /\ DispatchEvent(manage_window(Snapshot, w, in), EventMet("MapRequest", w))

ButtonPressMove(w) ==
    /\ CanMove
    /\ w \in DOMAIN clients
    /\ DispatchEvent(restack(focus(Snapshot, w)), EventMet("ButtonPress", w))

KeyToggleTagMove(i) ==
    CanMove /\ DispatchEvent(toggletag(Snapshot, i), EventMet("KeyPress", None))

KeyMoveStackMove(d) ==
    /\ CanMove
    /\ DispatchEvent(restack(move_stack(Snapshot, d)),
                     [kind |-> "MoveStack", window |-> monitors[selected_monitor].selected_client,
                      was_managed |-> TRUE, was_visible |-> TRUE, direction |-> d,
                      before |-> Snapshot])

NextMove ==
    \/ \E w \in Windows, in \in MoveInputs : MapRequestMove(w, in)
    \/ \E w \in Windows : ButtonPressMove(w)
    \/ \E i \in TagArgs : KeyToggleTagMove(i)
    \/ \E d \in Directions : KeyMoveStackMove(d)

SpecMove == InitRescan /\ [][NextMove]_vars

(***************************************************************************)
(* The tag masks under window rules as the configuration registers them    *)
(* (config/lua_api.rs, rule.add): the rule carries the tag number of the   *)
(* configuration file, counted from 1, as the mask 1 << (number - 1), and  *)
(* no tag for a number below 1.  Nothing compares the number with the      *)
(* number of tags.                                                         *)
(***************************************************************************)
rule_tag(tag_index) == IF tag_index > 0 THEN tag_mask(tag_index - 1) ELSE None

RuleTagNumbers == 0..(NumTags + 1)

RuleInputs ==
    {[PlainWindow EXCEPT !.rule = [NoRule EXCEPT !.rule_tags = rule_tag(n), !.rule_focus = f]] :
         n \in RuleTagNumbers, f \in BOOLEAN}
    \cup {[PlainWindow EXCEPT !.parent = p] : p \in Windows}

KeyToggleTagEvent(i) ==
    CanHandle /\ DispatchEvent(toggletag(Snapshot, i), EventMet("KeyPress", None))

KeyTagMonitorEvent(d) ==
    /\ CanHandle
    /\ DispatchEvent(send_window_to_adjacent_monitor(Snapshot, d), EventMet("KeyPress", None))

NextRules ==
    \/ \E w \in Windows, in \in RuleInputs : MapRequestEvent(w, in)
    \/ \E i \in TagArgs : KeyViewTagEvent(i)
    \/ \E i \in TagArgs : KeyToggleViewEvent(i)
    \/ \E i \in TagArgs : KeyMoveToTagEvent(i)
    \/ \E i \in TagArgs : KeyToggleTagEvent(i)
    \/ \E d \in Directions : KeyTagMonitorEvent(d)
    \/ \E d \in Directions : KeyFocusMonitorEvent(d)

SpecRules == InitRescan /\ [][NextRules]_vars

(***************************************************************************)
(* ViewNextNonEmptyTag and ViewPreviousNonEmptyTag (handle_key_action).    *)
(***************************************************************************)
\* Monitor::new sets monitor_number to 0 and nothing assigns it afterwards.
monitor_number(s, mi) == 0

\* has_windows_on_tag: a client of the monitor's tiling list whose lowest
\* tag is tag_index.
has_windows_on_tag(s, mon_num, tag_index) ==
    /\ mon_num < NumMonitors
    /\ \E w \in DOMAIN s.clients :
           /\ Contains(TilingList(s, mon_num), w)
           /\ unmask_tag(s.clients[w].tags) = tag_index

\* The offsets of the loop `for offset in 1..len` at which it finds a tag.
nonempty_offsets(s, direction) ==
    LET current == unmask_tag(ActiveTags(s.monitors[s.selected_monitor]))
    IN  {offset \in 1..(NumTags - 1) :
             has_windows_on_tag(s, monitor_number(s, s.selected_monitor),
                                rem_euclid(current + direction * offset, NumTags))}

view_nonempty_tag(s, direction) ==
    LET current == unmask_tag(ActiveTags(s.monitors[s.selected_monitor]))
        found == nonempty_offsets(s, direction)
    IN  IF found = {} THEN s
        ELSE view_tag(s, rem_euclid(current
                                        + direction * (CHOOSE o \in found : \A p \in found : o <= p),
                                    NumTags))

KeyViewNonEmptyTag(d) ==
    /\ CanHandle
    /\ DispatchEvent(view_nonempty_tag(Snapshot, d),
                     [kind |-> "ViewNonEmptyTag", window |-> None, was_managed |-> FALSE,
                      was_visible |-> FALSE, direction |-> d, before |-> Snapshot])

NextNonEmpty ==
    \/ \E w \in Windows, in \in SavedInputs : MapRequestEvent(w, in)
    \/ \E i \in TagArgs : KeyViewTagEvent(i)
    \/ \E i \in TagArgs : KeyToggleTagEvent(i)
    \/ \E d \in Directions : KeyFocusMonitorEvent(d)
    \/ \E d \in Directions : KeyViewNonEmptyTag(d)

SpecNonEmpty == InitRescan /\ [][NextNonEmpty]_vars

(***************************************************************************)
(* Properties.                                                             *)
(***************************************************************************)
Count(seq, x) == Cardinality({i \in 1..Len(seq) : seq[i] = x})

NoDuplicates(seq) == \A i, j \in 1..Len(seq) : seq[i] = seq[j] => i = j

LinkTargets == DOMAIN clients \cup {None}

\* C1: every client of the registry is exactly once in the tiling list and
\* exactly once in the stack list of the monitor its monitor_index names and
\* in no list of another monitor; both lists of every monitor are acyclic
\* and hold registry members only.
C1_ListConsistency ==
    \A mi \in MonitorIds :
        LET tiling == TilingList(Snapshot, mi)
            stack == StackList(Snapshot, mi)
        IN  /\ monitors[mi].clients_head \in LinkTargets
            /\ monitors[mi].stack_head \in LinkTargets
            /\ NoDuplicates(tiling)
            /\ NoDuplicates(stack)
            /\ \A i \in 1..Len(tiling) : clients[tiling[i]].next \in LinkTargets
            /\ \A i \in 1..Len(stack) : clients[stack[i]].stack_next \in LinkTargets
            /\ \A w \in DOMAIN clients :
                   LET expected == IF clients[w].monitor_index = mi THEN 1 ELSE 0
                   IN  /\ Count(tiling, w) = expected
                       /\ Count(stack, w) = expected

\* Clients on two monitors, one monitor holding several clients whose tiling
\* order differs from their stack order, after a client has changed monitor.
C1_Witness ==
    /\ \E mi \in MonitorIds :
           /\ Len(TilingList(Snapshot, mi)) >= 2
           /\ TilingList(Snapshot, mi) # StackList(Snapshot, mi)
    /\ \E w \in DOMAIN clients : clients[w].monitor_index # 0
    /\ \E w \in DOMAIN clients : clients[w].monitor_index = 0
    /\ events_handled = MaxEvents

\* C2: on every monitor selected_client is None or a registry member that is
\* visible under the monitor's active tags and is in both of its lists.
C2_SelectedClientValid ==
    \A mi \in MonitorIds :
        LET sel == monitors[mi].selected_client
        IN  sel # None =>
                /\ sel \in DOMAIN clients
                /\ BitAnd(clients[sel].tags, ActiveTags(monitors[mi])) # 0
                /\ Contains(TilingList(Snapshot, mi), sel)
                /\ Contains(StackList(Snapshot, mi), sel)

\* C3: the active tag mask of every monitor is non-zero; a toggleview that
\* would clear the last bit changes no tag-set slot, and neither toggleview
\* nor view_tag produces a zero active mask.
C3_ActiveTagsNonZero ==
    /\ \A mi \in MonitorIds : ActiveTags(monitors[mi]) # 0
    /\ \A i \in TagArgs :
           LET sm == selected_monitor
               after_toggle == toggleview(Snapshot, i)
               after_view == view_tag(Snapshot, i)
           IN  /\ (i < NumTags /\ ActiveTags(monitors[sm]) = tag_mask(i))
                      => after_toggle.monitors = monitors
               /\ \A mi \in MonitorIds :
                      /\ ActiveTags(after_toggle.monitors[mi]) # 0
                      /\ ActiveTags(after_view.monitors[mi]) # 0

\* A monitor that shows one tag only through its second slot, with a
\* different mask waiting in the other slot for the back-and-forth swap.
C3_Witness ==
    /\ config.tag_back_and_forth
    /\ \E i \in TagIndices :
           LET m == monitors[selected_monitor]
           IN  /\ m.selected_tags_index = 1
               /\ ActiveTags(m) = tag_mask(i)
               /\ m.tagset[0] # m.tagset[1]
               /\ toggleview(Snapshot, i) = Snapshot

ListState(s) ==
    [heads |-> [mi \in MonitorIds |->
                   <<s.monitors[mi].clients_head, s.monitors[mi].stack_head,
                     s.monitors[mi].selected_client>>],
     links |-> [w \in DOMAIN s.clients |->
                   <<s.clients[w].next, s.clients[w].stack_next>>]]

Binding1 == [keys |-> <<Key(<<MOD4>>, "a")>>, func |-> "ViewTag", arg |-> 1]
Binding2 == [keys |-> <<Key(<<MOD4>>, "a"), Key(<<>>, "b")>>, func |-> "ToggleView", arg |-> 1]
BothConfigured == Contains(keybindings, Binding1) /\ Contains(keybindings, Binding2)

\* C4: with the 2-key binding [Mod+a, b] and the 1-key binding [Mod+a]
\* configured together, Mod+a pressed in Idle gives InProgress and fires
\* nothing; b pressed next completes the 2-key binding, Escape pressed next
\* gives Cancelled.
C4_AmbiguousPrefix ==
    (BothConfigured /\ keychord_state = Idle) =>
        LET first == handle_key_press([keysym |-> "a", state |-> MOD4],
                                      keybindings, keychord_state)
        IN  /\ first.kind = "InProgress"
            /\ LET second == InProgress(first.candidates, 1)
               IN  /\ handle_key_press([keysym |-> "b", state |-> 0], keybindings, second)
                          = ResultCompleted(Binding2)
                   /\ handle_key_press([keysym |-> "Escape", state |-> 0], keybindings, second)
                          = ResultCancelled

\* A floating client has entered fullscreen and left it with the next event.
RoundTripDone ==
    /\ round_trip.phase = "exited"
    /\ round_trip.is_floating
    /\ round_trip.window \in DOMAIN clients

SameRectangle(g, b) ==
    /\ g.x_position = b.x_position /\ g.y_position = b.y_position
    /\ g.width = b.width /\ g.height = b.height

\* showhide treats the client as visible.
ShownByShowhide(w) ==
    BitAnd(clients[w].tags, ActiveTags(monitors[clients[w].monitor_index])) # 0

\* apply_size_hints reports no change for the rectangle the client had when
\* it entered fullscreen.
SettledBefore(w) ==
    LET b == round_trip.before
    IN  ~apply_size_hints([GeometrySnapshot EXCEPT !.geometry[w] = b], w,
                          b.x_position, b.y_position, b.width, b.height).changed

Representable(u) == u.hi < 2 ^ 15
u32_value(u) == u.hi * U16 + u.lo

RECURSIVE SumSeq(_)
SumSeq(seq) == IF seq = <<>> THEN 0 ELSE seq[1] + SumSeq(Tail(seq))

\* The master and the stack area of the last direct arrange call: the height
\* to share, and the heights returned for the area's windows.
Areas ==
    LET n == Len(arrange_call.windows)
        m == Max(arrange_call.num_master, 0)
        g == getgaps(arrange_call.gaps, n, arrange_call.smartgaps_enabled)
        Area(first, count) ==
            [count |-> count,
             H |-> arrange_call.screen_height - 2 * g.outer_horizontal
                   - g.inner_horizontal * (count - 1),
             heights |-> [i \in 1..count |-> arrange_result[first + i].height]]
    IN  {Area(0, Min(n, m))} \cup (IF n > m THEN {Area(m, n - m)} ELSE {})

Conserves(area) ==
    /\ \A i \in 1..area.count : Representable(area.heights[i])
    /\ SumSeq([i \in 1..area.count |-> u32_value(area.heights[i])]) = area.H

RemainderToFirst(area) ==
    LET share == area.H \div area.count
        r == area.H % area.count
    IN  \A i \in 1..area.count :
            area.heights[i] = as_u32(share + (IF i <= r THEN 1 ELSE 0))

\* C6 as stated: the heights of every area that holds windows sum to the
\* area height H, the remainder pixels going to the first r windows.
C6_HeightsSumToArea ==
    events_handled = 1 =>
        \A area \in Areas : area.count >= 1 => Conserves(area) /\ RemainderToFirst(area)

\* C6: the heights of an area that holds k >= 1 windows sum to its height H
\* when H >= 0, the first H mod k windows one pixel taller than the others;
\* when H < 0 every window of the area gets H / k truncated toward zero and
\* cast to u32, no remainder pixel is handed out and the sum is not H; no
\* window gives no geometry.
C6_HeightsSumToNonNegativeArea ==
    events_handled = 1 =>
        /\ Len(arrange_result) = Len(arrange_call.windows)
        /\ \A area \in Areas : area.count >= 1 =>
               IF area.H >= 0
               THEN Conserves(area) /\ RemainderToFirst(area)
               ELSE /\ \A i \in 1..area.count :
                           area.heights[i] = as_u32(-((-area.H) \div area.count))
                    /\ ~Conserves(area)

\* An area of three windows whose height leaves a remainder pixel, and an
\* area whose first window is taller than its last.
C6_Witness ==
    /\ events_handled = 1
    /\ \E area \in Areas : area.count = 3 /\ area.H >= 0 /\ area.H % 3 = 1
    /\ \E area \in Areas : area.count >= 1 /\ area.H >= 0
                           /\ area.heights[1] # area.heights[area.count]

Placed(mi, w) ==
    LET at == IndexOf(laid_out[mi].visible, w)
    IN  laid_out[mi].geometries[at]

\* Three MapRequests and no other event since start, on the default monitor
\* parameters.
ThreeOpened ==
    /\ events_handled = 3
    /\ Len(windows) = 3
    /\ layout_args = DefaultLayoutArgs

\* C7: three windows opened one after another on tag 1, num_master 1,
\* master_factor 0.55, no gaps, 1000x600: the first opened is laid out at
\* (0,0,550,600), the other two at x 550, 450 wide and 300 high, one at
\* y 0 and one at y 300.
C7_ThreeWindowsTiled ==
    ThreeOpened =>
        /\ Placed(0, windows[1]) =
               [x_coordinate |-> 0, y_coordinate |-> 0,
                width |-> as_u32(550), height |-> as_u32(600)]
        /\ \A k \in {2, 3} :
               /\ Placed(0, windows[k]).x_coordinate = 550
               /\ Placed(0, windows[k]).width = as_u32(450)
               /\ Placed(0, windows[k]).height = as_u32(300)
        /\ {Placed(0, windows[2]).y_coordinate, Placed(0, windows[3]).y_coordinate}
               = {0, 300}

\* The three windows are laid out on the first monitor, the second opened
\* last in the tiling order.
C7_Witness ==
    /\ ThreeOpened
    /\ Len(laid_out[0].visible) = 3
    /\ laid_out[0].visible[3] = windows[2]

\* The direct call was made on a floating client whose hints are valid and
\* whose aspect hints are off, and it asked for the size (w, h).
HintedCall ==
    /\ hint_call.window \in DOMAIN clients
    /\ clients[hint_call.window].is_floating
    /\ geometry[hint_call.window].hints_valid
    /\ ~(geometry[hint_call.window].min_aspect.num > 0
         /\ geometry[hint_call.window].max_aspect.num > 0)

raise_and_cap(v, min, max) == IF max > 0 THEN Min(Max(v, min), max) ELSE Max(v, min)

\* The largest base + k * inc that is not above the request, raised and capped.
ClaimedSize(request, base, inc, min, max) ==
    raise_and_cap(base + ((request - base) \div inc) * inc, min, max)

\* The request raised to 20, moved toward the base size by less than one
\* increment onto base + k * inc, raised and capped.
RoundsTowardBase(v, request, base, inc, min, max) ==
    LET r == Max(request, 20)
    IN  \E u \in (r - inc)..(r + inc) :
            /\ v = raise_and_cap(u, min, max)
            /\ IF inc > 0
               THEN /\ (u - base) % inc = 0
                    /\ r >= base => u <= r
                    /\ r <= base => u >= r
               ELSE u = r

ExampleHints(g) ==
    /\ g.min_width = 200 /\ g.min_height = 100
    /\ g.max_width = 400 /\ g.max_height = 300
    /\ g.increment_width = 10 /\ g.increment_height = 10
    /\ g.base_width = 200 /\ g.base_height = 100

C9_DetachIdempotent ==
    \A w \in Windows :
        LET s == Snapshot
            once == detach(s, w)
            once_stack == detach_stack(s, w)
        IN  /\ w \notin DOMAIN clients =>
                   /\ ListState(once) = ListState(s)
                   /\ ListState(once_stack) = ListState(s)
            /\ ListState(detach(once, w)) = ListState(once)
            /\ ListState(detach_stack(once_stack, w)) = ListState(once_stack)
            /\ \A mi \in MonitorIds :
                   /\ ~Contains(TilingList(once, mi), w)
                   /\ ~Contains(StackList(once_stack, mi), w)

\* A selected client that is neither head of its tiling list nor alone, next
\* to a window that is not in the registry.
C9_Witness ==
    /\ \E w \in DOMAIN clients :
           LET mi == clients[w].monitor_index
           IN  /\ monitors[mi].clients_head # w
               /\ monitors[mi].stack_head = w
               /\ monitors[mi].selected_client = w
               /\ detach(Snapshot, w) # Snapshot
               /\ detach_stack(Snapshot, w) # Snapshot
    /\ \E w \in Windows : w \notin DOMAIN clients

\* C10: no failed display-server call makes run() return: the loop goes on
\* to the next event.
C10_FailureNeverFatal == run_result # "Err"

\* After a reload that failed, what was in force before is in force still,
\* and the error has reached error_message and the overlay.
FailedReloadKeepsConfig ==
    reload.outcome = "failed" =>
        /\ config = reload.config
        /\ keybindings = reload.keybindings
        /\ gaps_enabled = reload.gaps_enabled
        /\ error_message = reload.error
        /\ error_message # NoMessage
        /\ overlay.lines = reload.error

\* C11: when a reload of the configuration fails, the running configuration
\* (tags, keybindings, gaps, rules) is what it was before the attempt, the
\* error message is recorded and handed to the overlay, and the loop
\* continues; the configuration is replaced only when parsing succeeded.
C11_FailedReloadContinues ==
    /\ FailedReloadKeepsConfig
    /\ reload.outcome = "failed" => run_result = "pending"
    /\ reload.outcome # "none" /\ config # reload.config => reload.outcome = "reloaded"

\* The mask a window's property holds, when it is one get_saved_tag accepts.
HoldsValidMask(w) ==
    /\ Len(net_client_info[w]) >= 4
    /\ from_ne_bytes(net_client_info[w]) # 0
    /\ from_ne_bytes(net_client_info[w]) < 2 ^ NumTags

\* C12: a client's tag mask survives a restart of the manager: after
\* scan_existing_windows, a mapped window whose property holds a valid mask
\* is a managed client whose tags equal the stored mask.
C12_TagsSurviveRestart ==
    server_windows.scanned =>
        \A w \in Windows :
            server_windows.attrs[w].map_state = "viewable" /\ HoldsValidMask(w)
                => /\ w \in DOMAIN clients
                   /\ clients[w].tags = from_ne_bytes(net_client_info[w])

\* The order restack is claimed to give: the selected client if it floats,
\* the other floating clients in stack order, the tiled clients in stack order.
ClaimedOrder ==
    LET selected == monitors[selected_monitor].selected_client
        stack == SelectSeq(StackList(Snapshot, selected_monitor),
                           LAMBDA w : Contains(windows, w))
    IN  (IF selected # None /\ selected \in DOMAIN clients /\ clients[selected].is_floating
         THEN <<selected>> ELSE <<>>)
        \o SelectSeq(stack, LAMBDA w : clients[w].is_floating /\ w # selected)
        \o SelectSeq(stack, LAMBDA w : ~clients[w].is_floating)

NoFloatingBelowTiled ==
    \A i, j \in 1..Len(z_order) :
        i < j /\ z_order[i] \in DOMAIN clients /\ z_order[j] \in DOMAIN clients
            => ~(clients[z_order[j]].is_floating /\ ~clients[z_order[i]].is_floating)

\* C13: after restack the order on the selected monitor is the selected
\* client if it floats, the other floating clients in stack order, then the
\* tiled clients in stack order, so that no client with is_floating is
\* stacked below a tiled client, also after a layout change or cycle.
C13_FloatingAboveTiled ==
    z_order # NotRestacked => z_order = ClaimedOrder /\ NoFloatingBelowTiled

AbsentEverywhere(w) ==
    /\ w \notin DOMAIN clients
    /\ ~Contains(windows, w)
    /\ \A m \in MonitorIds : /\ ~Contains(TilingList(Snapshot, m), w)
                             /\ ~Contains(StackList(Snapshot, m), w)

\* What holds of the two events: a managed window that was destroyed, or
\* unmapped while visible, is gone from the registry and every list.
VisibleOrDestroyedIsRemoved ==
    (/\ last_event.kind \in {"UnmapNotify", "DestroyNotify"}
     /\ last_event.was_managed
     /\ last_event.kind = "UnmapNotify" => last_event.was_visible)
        => AbsentEverywhere(last_event.window)

\* C14: after an UnmapNotify or a DestroyNotify has been handled for a
\* managed window, the window is absent from the registry, from the
\* managed-window list and from both lists of every monitor, whether or not
\* it was visible under the current tag set.
C14_UnmappedOrDestroyedIsRemoved ==
    (last_event.kind \in {"UnmapNotify", "DestroyNotify"} /\ last_event.was_managed)
        => AbsentEverywhere(last_event.window)

Selected(s) == s.monitors[s.selected_monitor].selected_client

FocusTargets == Windows \cup {None}

\* The request marks the client and changes nothing else.
OnlyMarksUrgent(w) ==
    net_active_window(Snapshot, w) = [Snapshot EXCEPT !.clients[w].is_urgent = TRUE]

\* Whatever focus is called with afterwards, if it selects the client the
\* mark is gone.
ClearedWhenFocused(w) ==
    \A target \in FocusTargets :
        Selected(focus(net_active_window(Snapshot, w), target)) = w
            => ~focus(net_active_window(Snapshot, w), target).clients[w].is_urgent

\* C15: a _NET_ACTIVE_WINDOW request for a managed client other than the
\* selected one sets the client's is_urgent and leaves selected_client,
\* selected_monitor, both list orders and every tag mask as they were; the
\* flag is cleared when the client is focused later.
C15_ActivationMarksUrgent ==
    \A w \in DOMAIN clients :
        w # Selected(Snapshot) => OnlyMarksUrgent(w) /\ ClearedWhenFocused(w)

\* An activation request has just marked a client that is not the selected one.
C15_Witness ==
    /\ last_event.kind = "ClientMessage"
    /\ last_event.window \in DOMAIN clients
    /\ clients[last_event.window].is_urgent
    /\ last_event.window # Selected(Snapshot)
    /\ Len(windows) > 1

\* The first visible client of the stacking list of the selected monitor
\* once `w` is taken out of it.
FirstVisibleWithout(w) ==
    FirstOr(SelectSeq(Retain(StackList(Snapshot, selected_monitor), w),
                      LAMBDA x : is_visible(Snapshot, x)),
            None)

\* C17: when the focused client is removed, the new selected client is the
\* first visible client in the stack (most recently focused) order of the
\* monitor, and None when no visible client remains.
C17_RemoveRefocusesByStack ==
    \A w \in DOMAIN clients :
        (Selected(Snapshot) = w /\ Contains(windows, w))
            => Selected(remove_window(Snapshot, w)) = FirstVisibleWithout(w)

\* What focus(target) must leave behind when it selects client w.
FocusedProperly(s, s2, w) ==
    /\ is_visible(s2, w)
    /\ StackList(s2, s2.clients[w].monitor_index)
           = <<w>> \o Retain(StackList(s, s.clients[w].monitor_index), w)
    /\ ~s2.clients[w].is_urgent
    /\ s2.selected_monitor = s2.clients[w].monitor_index
    /\ s2.monitors[s2.clients[w].monitor_index].selected_client = w

\* The client focus falls back on: the first visible one along the stacking
\* list of the selected monitor.
FallsBack(s, s2, target) ==
    (target = None \/ ~is_visible(s, target))
        => Selected(s2) = FirstOr(SelectSeq(StackList(s, s.selected_monitor),
                                            LAMBDA x : is_visible(s, x)), None)

FocusPostcondition(s, s2, target) ==
    /\ Selected(s2) # None
           => Selected(s2) \in DOMAIN s2.clients /\ FocusedProperly(s, s2, Selected(s2))
    /\ FallsBack(s, s2, target)
    /\ (target # None /\ is_visible(s, target)) => Selected(s2) = target

\* C16: after focus(target) has selected a client w, w is visible, heads
\* the stack list of its monitor with the other members in their old order,
\* is not urgent, and its monitor is the selected one with w selected; for a
\* target that is None or not visible w is the first visible client in the
\* stack order of the selected monitor, and None is selected if there is none.
C16_FocusPostcondition ==
    \A target \in FocusTargets :
        FocusPostcondition(Snapshot, focus(Snapshot, target), target)

\* A click has focused a client on a monitor whose stack list holds another
\* client as well.
C16_Witness ==
    /\ last_event.kind = "ButtonPress"
    /\ Selected(Snapshot) = last_event.window
    /\ Len(StackList(Snapshot, selected_monitor)) > 1
    /\ FocusedProperly(Snapshot, Snapshot, last_event.window)

\* The first visible client left in the stacking list of monitor mi.
FirstVisibleLeft(s, mi) ==
    FirstOr(SelectSeq(StackList(s, mi), LAMBDA x : is_visible(s, x)), None)

\* C18: detach_stack(w), for w the selected client of its monitor, sets the
\* monitor's selected_client to the first visible client remaining in the
\* stack list, or to None, wherever w stands in the stack list.
C18_DetachStackReselects ==
    \A w \in DOMAIN clients :
        monitors[clients[w].monitor_index].selected_client = w
            => detach_stack(Snapshot, w).monitors[clients[w].monitor_index].selected_client
                   = FirstVisibleLeft(detach_stack(Snapshot, w), clients[w].monitor_index)

\* The part that holds: the selected client at the head of the stack list.
DetachStackReselectsAtHead ==
    \A w \in DOMAIN clients :
        (/\ monitors[clients[w].monitor_index].selected_client = w
         /\ monitors[clients[w].monitor_index].stack_head = w)
            => detach_stack(Snapshot, w).monitors[clients[w].monitor_index].selected_client
                   = FirstVisibleLeft(detach_stack(Snapshot, w), clients[w].monitor_index)

\* The state manage_window hands to attach_aside: the new client is in the
\* registry with its monitor and tags and in no list yet.
WithNewClient(w, m, tags) ==
    [Snapshot EXCEPT !.clients = (w :> NewClient(m, tags)) @@ @]

\* The positions of the tiling list whose client shares a tag bit with tags.
SharingPositions(list, tags) ==
    {i \in 1..Len(list) : BitAnd(clients[list[i]].tags, tags) # 0}

TiledSharingPositions(list, tags) ==
    {i \in SharingPositions(list, tags) : ~clients[list[i]].is_floating}

Greatest(S) == IF S = {} THEN 0 ELSE CHOOSE i \in S : \A j \in S : j <= i

Least(S) == IF S = {} THEN 0 ELSE CHOOSE i \in S : \A j \in S : i <= j

InsertAfter(list, i, w) ==
    SubSeq(list, 1, i) \o <<w>> \o SubSeq(list, i + 1, Len(list))

AttachedAside(w, m, tags) ==
    TilingList(attach_aside(WithNewClient(w, m, tags), w, m), m)

\* C19: attach_aside puts the new client immediately after the last client
\* of the tiling list that shares a tag bit with it, and at the head of the
\* list when no client shares a tag.
C19_AttachAsideAfterLastSharing ==
    \A w \in Windows \ DOMAIN clients, m \in MonitorIds, tags \in AllTagMasks \ {0} :
        AttachedAside(w, m, tags)
            = InsertAfter(TilingList(Snapshot, m),
                          Greatest(SharingPositions(TilingList(Snapshot, m), tags)), w)

\* What attach_aside does: after the first tiled client sharing a tag bit.
AttachAsideAfterFirstTiledSharing ==
    \A w \in Windows \ DOMAIN clients, m \in MonitorIds, tags \in AllTagMasks \ {0} :
        AttachedAside(w, m, tags)
            = InsertAfter(TilingList(Snapshot, m),
                          Least(TiledSharingPositions(TilingList(Snapshot, m), tags)), w)

\* view_tag(i) seen from the monitor that was selected when it was called.
Viewed(i) == view_tag(Snapshot, i).monitors[selected_monitor]

\* C20: view_tag(i) with i below the number of tags and 1<<i different from
\* the active mask flips selected_tags_index and makes the active mask
\* exactly 1<<i while the other slot keeps the mask that was active;
\* view_tag(i) with i at or above the number of tags changes nothing.
C20_ViewTagFlipsSlot ==
    \A i \in TagArgs :
        /\ (i < NumTags /\ tag_mask(i) # ActiveTags(monitors[selected_monitor]))
               => /\ Viewed(i).selected_tags_index
                         = 1 - monitors[selected_monitor].selected_tags_index
                  /\ ActiveTags(Viewed(i)) = tag_mask(i)
                  /\ Viewed(i).tagset[monitors[selected_monitor].selected_tags_index]
                         = ActiveTags(monitors[selected_monitor])
        /\ i >= NumTags => view_tag(Snapshot, i) = Snapshot

\* view_tag has just flipped the slot of the selected monitor: the new slot
\* holds one tag, the other slot the mask shown before.
C20_Witness ==
    /\ last_event.kind = "ViewTag"
    /\ monitors[selected_monitor].selected_tags_index = 1
    /\ ActiveTags(monitors[selected_monitor]) = tag_mask(1)
    /\ monitors[selected_monitor].tagset[0] = tag_mask(0)
    /\ clients # <<>>

\* The mask shown on the monitor that is selected in s.
Shown(s) == ActiveTags(s.monitors[s.selected_monitor])

ViewedTwice(a) == view_tag(view_tag(Snapshot, a), a)

\* C21: with tag_back_and_forth, viewing tag a from an active mask P other
\* than 1<<a and viewing tag a again restores P as the active mask; without
\* it the second view_tag(a) changes nothing.
C21_BackAndForth ==
    \A a \in TagIndices :
        tag_mask(a) # Shown(Snapshot)
            => /\ config.tag_back_and_forth => Shown(ViewedTwice(a)) = Shown(Snapshot)
               /\ ~config.tag_back_and_forth => ViewedTwice(a) = view_tag(Snapshot, a)

\* Tag 2 was viewed from tag 1 and viewed again with tag_back_and_forth: the
\* slots are swapped and tag 1 is shown again.
C21_Witness ==
    /\ last_event.kind = "ViewTag"
    /\ config.tag_back_and_forth
    /\ monitors[selected_monitor].selected_tags_index = 1
    /\ monitors[selected_monitor].tagset[1] = tag_mask(0)
    /\ monitors[selected_monitor].tagset[0] = tag_mask(1)

\* C22: in every reachable state the persisted tag property of each managed
\* client equals the client's tag mask in memory.
C22_PropertyMatchesTags ==
    \A w \in DOMAIN clients :
        /\ Len(net_client_info[w]) >= 4
        /\ from_ne_bytes(net_client_info[w]) = clients[w].tags

\* The modifier state without the lock and num-lock bits.
Unlocked(state) == state - BitAnd(state, LOCK) - BitAnd(state, M2)

FirstKeyIs(i, event) ==
    /\ event.keysym = keybindings[i].keys[1].keysym
    /\ Unlocked(event.state) = modifiers_to_mask(keybindings[i].keys[1].modifiers)

SingleMatches(event) ==
    {i \in 1..Len(keybindings) : Len(keybindings[i].keys) = 1 /\ FirstKeyIs(i, event)}

LongerMatches(event) ==
    {i \in 1..Len(keybindings) : Len(keybindings[i].keys) > 1 /\ FirstKeyIs(i, event)}

FirstPress(event) == handle_key_press(event, keybindings, Idle)

\* Only longer bindings match, or none does.
ChordOrNothing(event) ==
    /\ (SingleMatches(event) = {} /\ LongerMatches(event) # {})
           => FirstPress(event) = ResultInProgress(SortedSeq(LongerMatches(event)))
    /\ (SingleMatches(event) = {} /\ LongerMatches(event) = {})
           => FirstPress(event) = ResultNone

\* What handle_event made of the result of a press met in Idle.
FirstPressHandled ==
    (last_event.kind = "KeyPress" /\ last_event.chord.kind = "Idle")
        => /\ key_result.kind = "InProgress"
                  => keychord_state = InProgress(key_result.candidates, 1)
           /\ key_result.kind = "None"
                  => keychord_state = Idle /\ Snapshot = last_event.before
           /\ key_result.kind = "Completed" => keychord_state = Idle

\* C23 as stated: from Idle, a press equal to the first key of a length-1
\* binding completes that binding at once; if only longer bindings match the
\* state becomes InProgress with exactly those bindings as candidates; if
\* none matches nothing fires and the state stays Idle.
C23_FirstKey ==
    /\ \A event \in AllKeyEvents :
           /\ \A i \in SingleMatches(event) :
                  FirstPress(event) = ResultCompleted(keybindings[i])
           /\ ChordOrNothing(event)
    /\ FirstPressHandled

\* C23 amended: the key is not Escape, and of several length-1 bindings on
\* the same key the first in the configuration completes; Escape pressed in
\* Idle gives None.
C23_FirstKeyExceptEscape ==
    /\ \A event \in AllKeyEvents :
           IF event.keysym = "Escape" THEN FirstPress(event) = ResultNone
           ELSE /\ SingleMatches(event) # {}
                       => FirstPress(event)
                              = ResultCompleted(keybindings[Least(SingleMatches(event))])
                /\ ChordOrNothing(event)
    /\ FirstPressHandled

\* A key other than Escape pressed in Idle has completed a length-1 binding
\* of a configuration with several bindings.
C23_Witness ==
    /\ last_event.kind = "KeyPress"
    /\ last_event.chord.kind = "Idle"
    /\ last_event.keysym # "Escape"
    /\ key_result.kind = "Completed"
    /\ Len(keybindings) > 1

EscapePresses == {event \in AllKeyEvents : event.keysym = "Escape"}

\* Escape as handle_key_press answers it in the state the machine is in.
EscapeAnswered ==
    \A event \in EscapePresses :
        handle_key_press(event, keybindings, keychord_state)
            = IF keychord_state.kind = "InProgress" THEN ResultCancelled ELSE ResultNone

\* Escape as handle_event has handled it: nothing fired, the machine is Idle.
EscapeHandled ==
    (last_event.kind = "KeyPress" /\ last_event.keysym = "Escape")
        => /\ key_result = IF last_event.chord.kind = "InProgress"
                           THEN ResultCancelled ELSE ResultNone
           /\ keychord_state = Idle
           /\ current_key = 0
           /\ Snapshot = last_event.before

\* C24: Escape pressed while the machine is InProgress always yields
\* Cancelled and returns it to Idle without firing an action; Escape pressed
\* while Idle fires nothing and leaves the machine Idle, also when the key
\* sequence of a binding contains Escape.
C24_EscapeCancels == EscapeAnswered /\ EscapeHandled

\* Escape has just cancelled a chord one of whose candidates expected Escape
\* as its next key.
C24_Witness ==
    /\ last_event.kind = "KeyPress"
    /\ last_event.keysym = "Escape"
    /\ last_event.chord.kind = "InProgress"
    /\ key_result = ResultCancelled
    /\ \E i \in 1..Len(keybindings) :
           Len(keybindings[i].keys) = 2 /\ keybindings[i].keys[2].keysym = "Escape"

\* C25: the keychord machine is Idle exactly when current_key = 0; when it
\* is InProgress, keys_pressed = current_key >= 1, the candidate list is not
\* empty and every candidate is an index of the keybindings in force naming a
\* binding strictly longer than keys_pressed; every Completed or Cancelled
\* result leaves the machine Idle at depth 0.
C25_ChordInvariant ==
    /\ keychord_state.kind = "Idle" <=> current_key = 0
    /\ keychord_state.kind = "InProgress"
           => /\ keychord_state.keys_pressed = current_key
              /\ current_key >= 1
              /\ keychord_state.candidates # <<>>
              /\ \A n \in 1..Len(keychord_state.candidates) :
                     /\ keychord_state.candidates[n] \in 1..Len(keybindings)
                     /\ Len(keybindings[keychord_state.candidates[n]].keys)
                            > keychord_state.keys_pressed
    /\ key_result.kind \in {"Completed", "Cancelled"}
           => keychord_state = Idle /\ current_key = 0

\* Two keys of a three-key chord have been pressed.
C25_Witness ==
    /\ keychord_state.kind = "InProgress"
    /\ keychord_state.keys_pressed = 2
    /\ current_key = 2
    /\ Len(keybindings) > 1

\* The keys of position current_key of the bindings in force that are longer
\* than current_key, under every combination of lock and num-lock, and
\* Escape under any modifiers when current_key > 0.
ExpectedGrabs ==
    {event \in AllKeyEvents :
        \/ \E i \in 1..Len(keybindings) :
               /\ Len(keybindings[i].keys) > current_key
               /\ event.keysym = keybindings[i].keys[current_key + 1].keysym
               /\ Unlocked(event.state)
                      = modifiers_to_mask(keybindings[i].keys[current_key + 1].modifiers)
        \/ current_key > 0 /\ event.keysym = "Escape"}

\* What holds: the grabs match unless the last event reloaded the bindings.
GrabsMatchUnlessReloaded ==
    ~(last_event.kind = "KeyPress" /\ last_event.reloaded) => grabbed = ExpectedGrabs

\* C26: between events the keys grabbed on the root are the keys at position
\* current_key of the configured bindings longer than current_key, plus
\* Escape exactly when current_key > 0, also after a reload of the
\* configuration.
C26_GrabsMatchBindings == grabbed = ExpectedGrabs

\* The loop holds the pointer grab, the main loop does not.
GrabHeldInLoop == drag.pointer_grabbed <=> drag.phase = "Loop"

\* A step taken inside the loop: the release of the button ends the loop
\* and the grab; any other event leaves the loop running, and only a motion
\* changes anything.
LoopStep ==
    drag.phase = "Loop" =>
        IF drag'.seen = "ButtonRelease"
        THEN drag'.phase = "Main" /\ ~drag'.pointer_grabbed
        ELSE /\ drag'.phase = "Loop" /\ drag'.pointer_grabbed
             /\ UNCHANGED <<wmvars, z_order>>
             /\ drag'.seen # "MotionNotify"
                    => drag'.new_monitor = drag.new_monitor /\ drag'.last_time = drag.last_time

\* C27: a drag-move or drag-resize holds the pointer grab from its start
\* until it reads a button release, only motion events change anything
\* meanwhile, the release ends the grab and the loop, and with the button
\* released at some time the loop terminates.
C27_DragLoop ==
    /\ []GrabHeldInLoop
    /\ [][LoopStep]_vars
    /\ (drag.phase = "Loop") ~> (drag.phase = "Main")

\* A resize whose loop processed a motion and dropped a key press is over.
C27_Witness ==
    /\ drag.phase = "Main" /\ drag.op = "resize" /\ drag.seen = "ButtonRelease"
    /\ ~drag.pointer_grabbed
    /\ \E w \in DOMAIN clients : clients[w].monitor_index # 0

\* Without the release of the button the loop need not end.
SpecDragUnfair == InitRescan /\ [][NextDrag]_vars

\* The last direct call was for a client that is tiled by a layout.
TiledCall ==
    /\ hint_call # NoHintCall
    /\ hint_call.window \in DOMAIN clients
    /\ ~clients[hint_call.window].is_floating
    /\ layout # "normie"

\* The absolute minimum of a width or height.
AbsoluteMinimum == 20

\* C28: for a client that is not floating, under a layout other than normie,
\* apply_size_hints applies no size hint: the width and height returned are
\* the requested ones raised to the absolute minimum, whatever the hints.
C28_TiledSkipsHints ==
    TiledCall =>
        /\ hint_result.w = Max(hint_call.w, AbsoluteMinimum)
        /\ hint_result.h = Max(hint_call.h, AbsoluteMinimum)

\* A tiled client with valid hints got a width below its minimum and off its
\* increments, under the monocle layout.
C28_Witness ==
    /\ TiledCall
    /\ layout = "monocle"
    /\ geometry[hint_call.window].hints_valid
    /\ hint_result.w = 35
    /\ geometry[hint_call.window].min_width = 200
    /\ geometry[hint_call.window].increment_width = 10

\* The last direct call was for a client of the registry.
ClientCall == hint_call # NoHintCall /\ hint_call.window \in DOMAIN clients

CallArea == monitor_area(GeometrySnapshot, clients[hint_call.window].monitor_index)

CallBorder == geometry[hint_call.window].border_width

\* The rectangle returned, with its border, lies inside the window area.
InsideArea ==
    /\ CallArea.x <= hint_result.x
    /\ hint_result.x + hint_result.w + 2 * CallBorder <= CallArea.x + CallArea.width
    /\ CallArea.y <= hint_result.y
    /\ hint_result.y + hint_result.h + 2 * CallBorder <= CallArea.y + CallArea.height

\* One axis: a position at or beyond the far edge goes to the far edge less
\* the client's present outer size; if the requested size then ends at or
\* before the near edge the position is the near edge; else it is kept.
ClampedAxis(got, at, size, near, extent, present) ==
    LET moved == IF at >= near + extent THEN near + extent - (present + 2 * CallBorder) ELSE at
    IN  /\ got = IF moved + Max(size, 1) + 2 * CallBorder <= near THEN near ELSE moved
        /\ got < near + extent
        /\ got + Max(size, 1) + 2 * CallBorder > near

\* C29 as stated: the rectangle apply_size_hints returns stays, with its
\* border, within the window area of the client's monitor.
C29_StaysWithinArea == ClientCall => InsideArea

\* C29 as the code has it: a position is moved only when it lies at or
\* beyond the far edge or the requested rectangle ends at or before the near
\* edge; the position returned is before the far edge and the requested
\* rectangle with its border ends after the near edge.
C29_OverlapsArea ==
    ClientCall =>
        /\ ClampedAxis(hint_result.x, hint_call.x, hint_call.w, CallArea.x, CallArea.width,
                       geometry[hint_call.window].width)
        /\ ClampedAxis(hint_result.y, hint_call.y, hint_call.h, CallArea.y, CallArea.height,
                       geometry[hint_call.window].height)

\* A request beyond the far edge in x and before the near edge in y has been
\* moved on both axes.
C29_Witness ==
    /\ ClientCall
    /\ hint_call.x >= CallArea.x + CallArea.width
    /\ hint_result.x < CallArea.x + CallArea.width
    /\ hint_call.y < CallArea.y
    /\ hint_result.y = CallArea.y

\* The direct call of the scrolling layout: its gaps, the width left between
\* the outer gaps, and visible_count.
ScrollGaps ==
    scrolling_getgaps(arrange_call.gaps, Len(arrange_call.windows),
                      arrange_call.smartgaps_enabled)

ScrollAvailable == arrange_call.screen_width - 2 * ScrollGaps.outer_vertical

VisibleCount == IF arrange_call.num_master > 0 THEN arrange_call.num_master ELSE 2

\* The width of one of `columns` columns that share the available width.
ColumnWidth(columns) ==
    (ScrollAvailable - ScrollGaps.inner_vertical * (columns - 1)) \div columns

IncreasingX ==
    \A i, j \in 1..Len(arrange_result) :
        i < j => arrange_result[i].x_coordinate < arrange_result[j].x_coordinate

BeyondVisibleRunOff ==
    \A i \in 1..Len(arrange_result) :
        i > VisibleCount
            => arrange_result[i].x_coordinate + arrange_result[i].width
                   > arrange_call.screen_width

\* C30 as stated: every window gets the width of one of visible_count
\* columns, whatever the number of windows; x increases strictly from left
\* to right; the windows beyond visible_count extend past the right edge.
C30_FixedColumns ==
    events_handled = 1 =>
        /\ Len(arrange_result) = Len(arrange_call.windows)
        /\ \A i \in 1..Len(arrange_result) :
               arrange_result[i].width = ColumnWidth(VisibleCount)
        /\ IncreasingX
        /\ BeyondVisibleRunOff

\* C30 as the code has it: the windows share one width, that of one of
\* min(window count, visible_count) columns; each starts one width and one
\* inner gap after the one before; x increases strictly; the windows beyond
\* visible_count extend past the right edge.
C30_SharedColumns ==
    events_handled = 1 =>
        /\ Len(arrange_result) = Len(arrange_call.windows)
        /\ \A i \in 1..Len(arrange_result) :
               /\ arrange_result[i].width
                      = ColumnWidth(Min(Len(arrange_call.windows), VisibleCount))
               /\ arrange_result[i].x_coordinate
                      = ScrollGaps.outer_vertical
                            + (i - 1) * (arrange_result[i].width + ScrollGaps.inner_vertical)
               /\ arrange_result[i].y_coordinate = ScrollGaps.outer_horizontal
               /\ arrange_result[i].height
                      = arrange_call.screen_height - 2 * ScrollGaps.outer_horizontal
        /\ IncreasingX
        /\ BeyondVisibleRunOff

\* Three windows in two columns with gaps: the third starts past the right
\* edge less the outer gap.
C30_Witness ==
    /\ events_handled = 1
    /\ Len(arrange_result) = 3
    /\ arrange_call.num_master = 0
    /\ ScrollGaps.inner_vertical > 0
    /\ arrange_result[3].x_coordinate + arrange_result[3].width > arrange_call.screen_width
    /\ arrange_result[2].x_coordinate + arrange_result[2].width <= arrange_call.screen_width

\* The rectangles of the last direct call as numbers, under either layout.
Rect(i) ==
    LET r == arrange_result[i]
    IN  [x |-> r.x_coordinate, y |-> r.y_coordinate,
         w |-> IF layout = "tiling" THEN u32_value(r.width) ELSE r.width,
         h |-> IF layout = "tiling" THEN u32_value(r.height) ELSE r.height]

Arranged == Len(arrange_result)

\* The outer gaps the claim gives: none for a single window under smart gaps.
OuterClaimed ==
    IF arrange_call.smartgaps_enabled /\ Arranged = 1
    THEN [horizontal |-> 0, vertical |-> 0]
    ELSE [horizontal |-> arrange_call.gaps.outer_horizontal,
          vertical |-> arrange_call.gaps.outer_vertical]

\* No rectangle starts before the outer gap at the left and at the top or
\* ends after it at the bottom, and the first starts on both; under the
\* tiling layout none ends after it at the right, and under the scrolling
\* layout none of the first visible_count.
OuterGapsAround ==
    /\ Rect(1).x = OuterClaimed.vertical /\ Rect(1).y = OuterClaimed.horizontal
    /\ \A i \in 1..Arranged :
           /\ Rect(i).x >= OuterClaimed.vertical
           /\ Rect(i).y >= OuterClaimed.horizontal
           /\ Rect(i).y + Rect(i).h <= arrange_call.screen_height - OuterClaimed.horizontal
           /\ (layout = "tiling" \/ i <= VisibleCount)
                  => Rect(i).x + Rect(i).w <= arrange_call.screen_width - OuterClaimed.vertical
    /\ \E i \in 1..Arranged :
           Rect(i).y + Rect(i).h = arrange_call.screen_height - OuterClaimed.horizontal

\* Two rectangles one after the other in a column are inner_horizontal
\* apart, two in a row inner_vertical.
InnerGapsBetween ==
    \A i \in 1..(Arranged - 1) :
        \/ /\ Rect(i + 1).x = Rect(i).x
           /\ Rect(i + 1).y = Rect(i).y + Rect(i).h + arrange_call.gaps.inner_horizontal
        \/ /\ Rect(i + 1).y = (IF layout = "tiling" THEN OuterClaimed.horizontal ELSE Rect(i).y)
           /\ Rect(i + 1).x = Rect(i).x + Rect(i).w + arrange_call.gaps.inner_vertical

WholeArea(i) ==
    Rect(i) = [x |-> 0, y |-> 0, w |-> arrange_call.screen_width,
               h |-> arrange_call.screen_height]

\* C31: under the tiling and the scrolling layout with smart gaps the outer
\* gaps are zero exactly when one window is arranged, which then gets the
\* whole area; otherwise the outer gaps lie on all sides, and the inner gap
\* lies between adjacent windows in every case.
C31_SmartGaps ==
    (events_handled = 1 /\ Arranged >= 1) =>
        /\ Arranged = Len(arrange_call.windows)
        /\ OuterGapsAround
        /\ InnerGapsBetween
        /\ (arrange_call.smartgaps_enabled /\ Arranged = 1) => WholeArea(1)

\* A single window with the whole area although outer gaps are configured,
\* under the scrolling layout.
C31_Witness ==
    /\ events_handled = 1 /\ Arranged = 1 /\ layout = "scrolling"
    /\ arrange_call.smartgaps_enabled
    /\ arrange_call.gaps.outer_vertical = 8 /\ arrange_call.gaps.outer_horizontal = 6
    /\ WholeArea(1)

\* C32: a window is in floating_windows exactly when its client's
\* is_floating flag is set, in every reachable state.
C32_FloatingRecordsAgree ==
    /\ floating_windows \subseteq DOMAIN clients
    /\ \A w \in DOMAIN clients : (w \in floating_windows) <=> clients[w].is_floating

\* What holds of the two sets: floating_windows holds clients only, and the
\* fullscreen flag of a client is set only for a window of fullscreen_windows.
FlaggedFullscreenIsRecorded ==
    /\ floating_windows \subseteq DOMAIN clients
    /\ \A w \in DOMAIN clients : clients[w].is_fullscreen => w \in fullscreen_windows

\* C33: fullscreen_windows and floating_windows hold windows of the registry
\* only, and a window is in fullscreen_windows exactly when its client's
\* is_fullscreen flag is set, also after a fullscreen client was removed.
C33_FullscreenRecordsAgree ==
    /\ fullscreen_windows \subseteq DOMAIN clients
    /\ floating_windows \subseteq DOMAIN clients
    /\ \A w \in DOMAIN clients : (w \in fullscreen_windows) <=> clients[w].is_fullscreen

ListedWindows == {windows[i] : i \in 1..Len(windows)}

\* What holds: no window is listed twice and every client is listed.
ClientsAreListedOnce == NoDuplicates(windows) /\ DOMAIN clients \subseteq ListedWindows

\* C34: from startup on the list of managed windows has no duplicates and
\* holds exactly the keys of the client registry.
C34_WindowsAreTheClients == NoDuplicates(windows) /\ ListedWindows = DOMAIN clients

\* The registry reflects the window event handled last.
Reflected ==
    /\ last_event.kind = "MapRequest" => last_event.window \in DOMAIN clients
    /\ last_event.kind = "DestroyNotify" => last_event.window \notin DOMAIN clients
    /\ (last_event.kind = "UnmapNotify" /\ last_event.was_visible)
           => last_event.window \notin DOMAIN clients

\* What holds: an event the main loop read is reflected when the next
\* event is awaited.
ReflectedUnlessDragged == (drag.phase = "Main" /\ drag.seen = "none") => Reflected

\* C35: a MapRequest, UnmapNotify or DestroyNotify that arrives while a
\* drag loop runs is not lost: once the drag is over and the main loop
\* awaits the next event, the registry reflects it.
C35_NothingLostInDrag == drag.phase = "Main" => Reflected

\* C36: while a client is fullscreen no operation changes its saved
\* pre-fullscreen state: the old x, y, width and height, the old border width
\* and the old floating flag are the same after every step that the client is
\* fullscreen before and after, be it a repeated request to enter fullscreen,
\* toggle-floating, a drag to move or to resize, a geometry-change request or
\* a relayout.
SavedState(w) ==
    <<geometry[w].old_x_position, geometry[w].old_y_position, geometry[w].old_width,
      geometry[w].old_height, geometry[w].old_border_width, clients[w].old_state>>

StaysFullscreen(w) ==
    /\ w \in DOMAIN clients
    /\ clients[w].is_fullscreen
    /\ w \in DOMAIN clients'
    /\ clients'[w].is_fullscreen

SavedStateKept == \A w \in PlacedWindows : StaysFullscreen(w) => SavedState(w)' = SavedState(w)

C36_SavedStateKept == [][SavedStateKept]_vars

\* A request to change the border width has been handled for a fullscreen
\* client (entering fullscreen sets the width to 0, the request to 5), and
\* the saved border width is still the one from before fullscreen.
C36_Witness ==
    \E w \in DOMAIN clients :
        /\ clients[w].is_fullscreen
        /\ geometry[w].border_width = 5
        /\ geometry[w].old_border_width = BorderWidth

\* C37: move_stack exchanges the positions of the selected client and the
\* next (for a negative direction the previous) visible tiled client in the
\* tiling list of the selected monitor, wrapping around at the ends; every
\* other client keeps its position, the stack lists and the selection are
\* unchanged, and the tiling list afterwards is an acyclic permutation of the
\* same clients.
ShownTiled(s, w) ==
    /\ BitAnd(s.clients[w].tags, ActiveTags(s.monitors[s.selected_monitor])) # 0
    /\ ~s.clients[w].is_floating

\* The client the claim exchanges the selected one with, None without one.
ExchangedWith(s, list, selected, direction) ==
    LET at == IndexOf(list, selected)
        shown == {i \in 1..Len(list) : ShownTiled(s, list[i])}
        after == {i \in shown : i > at}
        before == {i \in shown : i < at}
    IN  IF shown = {} THEN None
        ELSE IF direction > 0
        THEN IF after # {} THEN list[CHOOSE i \in after : \A j \in after : i <= j]
             ELSE list[CHOOSE i \in shown : \A j \in shown : i <= j]
        ELSE IF before # {} THEN list[CHOOSE i \in before : \A j \in before : i >= j]
             ELSE list[CHOOSE i \in shown : \A j \in shown : i >= j]

Exchanged(list, a, b) ==
    [i \in 1..Len(list) |-> IF list[i] = a THEN b ELSE IF list[i] = b THEN a ELSE list[i]]

\* The list is a walk that ends at None and meets no client twice.
Acyclic(s, list) ==
    /\ \A i, j \in 1..Len(list) : list[i] = list[j] => i = j
    /\ list # <<>> => s.clients[list[Len(list)]].next = None

MoveStackMet == last_event.kind = "MoveStack" /\ last_event.window \in DOMAIN clients

C37_MoveStackExchanges ==
    MoveStackMet =>
        LET s == last_event.before
            sm == s.selected_monitor
            list == TilingList(s, sm)
            selected == last_event.window
            target == ExchangedWith(s, list, selected, last_event.direction)
        IN  /\ TilingList(Snapshot, sm) =
                   IF target = None THEN list ELSE Exchanged(list, selected, target)
            /\ Acyclic(Snapshot, TilingList(Snapshot, sm))
            /\ \A mi \in MonitorIds :
                   /\ mi # sm => TilingList(Snapshot, mi) = TilingList(s, mi)
                   /\ StackList(Snapshot, mi) = StackList(s, mi)
                   /\ monitors[mi].selected_client = s.monitors[mi].selected_client
            /\ selected_monitor = sm

\* move_stack has exchanged the selected client, the last of three in the
\* list, with the head of the list, with a client between them.
C37_Witness ==
    /\ MoveStackMet
    /\ last_event.direction > 0
    /\ LET s == last_event.before
           list == TilingList(s, s.selected_monitor)
       IN  /\ Len(list) = 3
           /\ list[3] = last_event.window
           /\ TilingList(Snapshot, s.selected_monitor) = <<list[3], list[2], list[1]>>

\* The mask of every managed client has a bit set.
TagsNonZero == \A w \in DOMAIN clients : clients[w].tags # 0

\* The client is shown, or is shown once a tag is viewed on its monitor.
ShownByViewing(w) ==
    \/ is_window_visible(Snapshot, w)
    \/ \E i \in TagIndices :
           is_window_visible(
               view_tag([Snapshot EXCEPT !.selected_monitor = clients[w].monitor_index], i), w)

\* C38: every managed client has a non-zero tag mask in every reachable
\* state (manage with the tags of a transient parent or of the selected
\* monitor, window rules, move_to_tag, toggletag and the move to another
\* monitor never produce an empty mask), so every client can be made visible
\* by viewing some tag.
C38_TagsNeverEmpty ==
    /\ TagsNonZero
    /\ \A w \in DOMAIN clients : ShownByViewing(w)

\* apply_size_hints has been called for a floating client that has no
\* aspect hints.
FloatingCallWithoutAspect ==
    /\ ClientCall
    /\ clients[hint_call.window].is_floating
    /\ geometry[hint_call.window].min_aspect = ZeroAspect
    /\ geometry[hint_call.window].max_aspect = ZeroAspect

\* The call repeated with the rectangle the first call returned.
FedBack ==
    apply_size_hints(GeometrySnapshot, hint_call.window, hint_result.x, hint_result.y,
                     hint_result.w, hint_result.h)

\* C39: apply_size_hints is idempotent on size for a floating client without
\* aspect hints: called again with the width and height it returned, it
\* returns the same width and height, so a second relayout of an unchanged
\* state does not change the size of a floating client.
C39_SizeHintsIdempotent ==
    FloatingCallWithoutAspect => FedBack.w = hint_result.w /\ FedBack.h = hint_result.h

\* The same for clients whose hints have no maximum size and whose minimum
\* size is not below the base size.
SizeHintsIdempotentUncapped ==
    /\ FloatingCallWithoutAspect
    /\ geometry[hint_call.window].max_width = 0
    /\ geometry[hint_call.window].max_height = 0
    /\ geometry[hint_call.window].min_width >= geometry[hint_call.window].base_width
    /\ geometry[hint_call.window].min_height >= geometry[hint_call.window].base_height
    => FedBack.w = hint_result.w /\ FedBack.h = hint_result.h

\* A client of the monitor has the bit of the tag set.
Occupied(s, mi, tag_index) ==
    \E w \in DOMAIN s.clients :
        /\ s.clients[w].monitor_index = mi
        /\ BitAnd(s.clients[w].tags, tag_mask(tag_index)) # 0

\* The occupied tags other than the shown one, by their distance from it in
\* the direction of the key action.
OccupiedOffsets(s, direction) ==
    {offset \in 1..(NumTags - 1) :
         Occupied(s, s.selected_monitor,
                  (unmask_tag(ActiveTags(s.monitors[s.selected_monitor])) + direction * offset)
                      % NumTags)}

NonEmptyTagViewed(s, direction) ==
    LET current == unmask_tag(ActiveTags(s.monitors[s.selected_monitor]))
        found == OccupiedOffsets(s, direction)
    IN  IF found = {}
        THEN /\ monitors = s.monitors
             /\ clients = s.clients
             /\ selected_monitor = s.selected_monitor
        ELSE ActiveTags(monitors[s.selected_monitor]) =
                 tag_mask((current + direction * (CHOOSE o \in found : \A p \in found : o <= p))
                              % NumTags)

\* C40: ViewNextNonEmptyTag and ViewPreviousNonEmptyTag switch the selected
\* monitor to the nearest tag, in the cyclic direction of the action, on which
\* a client of that monitor has its tag bit set, be it a client with several
\* tags, and change nothing when no other tag is occupied.
C40_NearestOccupiedTag ==
    last_event.kind = "ViewNonEmptyTag" =>
        NonEmptyTagViewed(last_event.before, last_event.direction)

\* The same for the first monitor while each of its clients has one tag.
NearestOccupiedTagSingle ==
    /\ last_event.kind = "ViewNonEmptyTag"
    /\ last_event.before.selected_monitor = 0
    /\ \A w \in DOMAIN last_event.before.clients :
           \E i \in TagIndices : last_event.before.clients[w].tags = tag_mask(i)
    => NonEmptyTagViewed(last_event.before, last_event.direction)

====
